---- MODULE Spec2Model ----
(***************************************************************************)
(* A model of the spawnnet launcher (src/src/new/session.c): the k-ary     *)
(* spawn tree, the unfurl handshake between parent and child launchers,    *)
(* the tree collectives (signal waves, gather, broadcast, ring scan) and   *)
(* the PMI and ring bootstrap protocols between a launcher and the         *)
(* application processes it forks.                                         *)
(*                                                                         *)
(* Launchers are sequential processes that block in reads and accepts.     *)
(* A launcher action is one blocking read (or accept) together with the    *)
(* non-blocking code that follows it up to the next blocking call.         *)
(***************************************************************************)
EXTENDS Integers, Sequences, FiniteSets, TLC

\* -------------------------------------------------------------------------
\* Bounds of the model
\* -------------------------------------------------------------------------
MaxRanks == 6    \* ranks given to tree_create_kary on its own
MaxK == 4        \* fan-out given to tree_create_kary on its own
MaxN == 4        \* launchers in the protocol specifications
MaxDeg == 3      \* MV2_SPAWN_DEGREE in the protocol specifications
MaxPPN == 2      \* MV2_SPAWN_PPN
MaxPmiN == 3     \* launchers in the PMI exchange
MaxPmiDeg == 2   \* MV2_SPAWN_DEGREE in the PMI exchange
MaxRingProcs == 6 \* application processes in the ring exchange
MaxWaves == 2    \* rounds of the loop of signal waves (1000 in session_start)
MaxFile == 2     \* bytes of the file of bcast_file
MaxFaultN == 2   \* launchers in the PMI exchange with a faulty process

VARIABLES
    cfg,      \* the run: [N, DEG, PPN] (argc, MV2_SPAWN_DEGREE, MV2_SPAWN_PPN) and
              \* prog, the statements of session_start that the run goes through
    tree,     \* launcher rank -> spawn_tree (s->tree)
    build,    \* the running tree_create_kary call: [rank, size, tree_size], rank = -1 when none
    params,   \* launcher rank -> s->params
    pc,       \* launcher rank -> index in cfg.prog of its current statement
              \* (0: not forked, -1: session_start returned -1, -2: the
              \* process was killed or has exited)
    loc,      \* launcher rank -> session fields and local variables of the running routine
    ep,       \* launcher rank -> connections made to s->ep and not yet accepted
    up,       \* tree channel of child c: what c wrote and its parent has not read
    down,     \* tree channel of child c: what the parent wrote and c has not read
    spawned,  \* launcher id -> the fork_proc calls that started a launcher with that id
    app,      \* application process -> its position and locals
    ach       \* application process -> its channel: [up, down, open]

vars == <<cfg, tree, build, params, pc, loc, ep, up, down, spawned, app, ach>>

\* -------------------------------------------------------------------------
\* Strings and numbers: "%d" formatting and atoi
\* -------------------------------------------------------------------------
Digit == <<"0", "1", "2", "3", "4", "5", "6", "7", "8", "9">>

RECURSIVE itoa(_)
itoa(n) == IF n < 10 THEN Digit[n + 1] ELSE itoa(n \div 10) \o Digit[(n % 10) + 1]

\* atoi of a string of decimal digits; a string that is no number gives 0
atoi(s) == IF \E n \in 0..99 : itoa(n) = s THEN CHOOSE n \in 0..99 : itoa(n) = s ELSE 0

NULL == "<NULL>"

\* -------------------------------------------------------------------------
\* strmap: an ordered map from string keys to string values
\* -------------------------------------------------------------------------
strmap_new == <<>>

strmap_keys(m) == {m[i][1] : i \in DOMAIN m}

strmap_get(m, key) ==
    IF key \in strmap_keys(m)
    THEN m[CHOOSE i \in DOMAIN m : m[i][1] = key][2]
    ELSE NULL

\* (each operator below binds its map argument once, so that its evaluation
\* inside ENABLED stays linear in the size of the map)
strmap_set(m, key, value) ==
    CHOOSE set \in {IF key \in strmap_keys(old)
                    THEN [i \in DOMAIN old |->
                            IF old[i][1] = key THEN <<key, value>> ELSE old[i]]
                    ELSE Append(old, <<key, value>>) : old \in {m}} : TRUE

RECURSIVE strmap_merge(_, _)
strmap_merge(dst, src) ==
    CHOOSE merged \in {IF from = <<>> THEN dst
                       ELSE strmap_merge(strmap_set(dst, from[1][1], from[1][2]),
                                         Tail(from)) : from \in {src}} : TRUE

\* packed form: the count, then each key and value in map order
RECURSIVE strmap_pack(_)
strmap_pack(m) ==
    CHOOSE packed \in {IF map = <<>> THEN <<0>>
                       ELSE CHOOSE buf \in
                                {<<rest[1] + 1, map[1][1], map[1][2]>> \o Tail(rest) :
                                    rest \in {strmap_pack(Tail(map))}} : TRUE :
                       map \in {m}} : TRUE

RECURSIVE strmap_unpack_n(_, _, _)
strmap_unpack_n(buf, n, m) ==
    IF n = 0 THEN m
    ELSE CHOOSE map \in {strmap_unpack_n(SubSeq(from, 3, Len(from)), n - 1,
                                         strmap_set(m, from[1], from[2])) :
                             from \in {buf}} : TRUE

strmap_unpack(buf, m) == strmap_unpack_n(Tail(buf), buf[1], m)

\* -------------------------------------------------------------------------
\* spawn_tree
\* -------------------------------------------------------------------------
SPAWN_NET_CHANNEL_NULL == -1

tree_new ==
    [rank |-> -1, ranks |-> -1, parent_ch |-> SPAWN_NET_CHANNEL_NULL,
     children |-> 0, child_ranks |-> <<>>, child_chs |-> <<>>,
     child_hosts |-> <<>>, child_pids |-> <<>>]

\* the test of the while loop: is rank a parent in the round (size, tree_size)
tree_in_round(rank, size, tree_size) ==
    tree_size <= rank /\ rank < tree_size + size

\* mutant: the group offset is not scaled by the fan-out
tree_first_child_unscaled(rank, k, size, tree_size) ==
    LET group_id    == rank - tree_size
        offset_rank == tree_size + size
    IN offset_rank + group_id

tree_first_child(rank, k, size, tree_size) ==
    LET group_id    == rank - tree_size
        offset_rank == tree_size + size
    IN offset_rank + group_id * k

\* mutant: the last child is cut one rank too late
tree_num_children_late(rank, ranks, k, size, tree_size) ==
    LET first_child == tree_first_child(rank, k, size, tree_size)
        last_child  == first_child + (k - 1)
    IN IF first_child < ranks
       THEN (IF last_child > ranks THEN ranks ELSE last_child) - first_child + 1
       ELSE 0

tree_num_children(rank, ranks, k, size, tree_size) ==
    LET first_child == tree_first_child(rank, k, size, tree_size)
        last_child  == first_child + (k - 1)
    IN IF first_child < ranks
       THEN (IF last_child >= ranks THEN ranks - 1 ELSE last_child) - first_child + 1
       ELSE 0

\* the tree t as the round (size, tree_size) in which rank is a parent leaves it
tree_fill(t, rank, ranks, k, size, tree_size) ==
    LET children == tree_num_children(rank, ranks, k, size, tree_size)
        first_child == tree_first_child(rank, k, size, tree_size)
    IN [t EXCEPT !.rank = rank,
                 !.ranks = ranks,
                 !.children = children,
                 !.child_ranks = [i \in 1..children |-> first_child + (i - 1)],
                 !.child_chs   = [i \in 1..k |-> SPAWN_NET_CHANNEL_NULL],
                 !.child_hosts = [i \in 1..k |-> NULL],
                 !.child_pids  = [i \in 1..k |-> -1]]

RECURSIVE tree_rounds(_, _, _, _, _, _)
tree_rounds(t, rank, ranks, k, size, tree_size) ==
    IF tree_in_round(rank, size, tree_size)
    THEN tree_fill(t, rank, ranks, k, size, tree_size)
    ELSE tree_rounds(t, rank, ranks, k, size * k, tree_size + size)

tree_create_kary(rank, ranks, k, t) == tree_rounds(t, rank, ranks, k, 1, 0)

\* -------------------------------------------------------------------------
\* tree_create_kary on its own, one round of its loop at a time
\* -------------------------------------------------------------------------
NoBuild == [rank |-> -1, size |-> 0, tree_size |-> 0]

InitTree ==
    /\ cfg \in [N : 1..MaxRanks, DEG : 1..MaxK, PPN : {1}, prog : {<<>>}]
    /\ tree = [r \in 0..(cfg.N - 1) |-> tree_new]
    /\ build = NoBuild
    /\ params = <<>>
    /\ pc = <<>>
    /\ loc = <<>>
    /\ ep = <<>>
    /\ up = <<>>
    /\ down = <<>>
    /\ spawned = <<>>
    /\ app = <<>>
    /\ ach = <<>>

TreeBegin(r) ==
    /\ build.rank = -1
    /\ tree[r].rank = -1
    /\ build' = [rank |-> r, size |-> 1, tree_size |-> 0]
    /\ UNCHANGED <<cfg, tree, params, pc, loc, ep, up, down, spawned, app, ach>>

TreeNextRound ==
    /\ build.rank # -1
    /\ ~tree_in_round(build.rank, build.size, build.tree_size)
    /\ build' = [build EXCEPT !.tree_size = build.tree_size + build.size,
                              !.size = build.size * cfg.DEG]
    /\ UNCHANGED <<cfg, tree, params, pc, loc, ep, up, down, spawned, app, ach>>

TreeFinish ==
    /\ build.rank # -1
    /\ tree_in_round(build.rank, build.size, build.tree_size)
    /\ tree' = [tree EXCEPT ![build.rank] =
                   tree_fill(tree[build.rank], build.rank, cfg.N, cfg.DEG,
                             build.size, build.tree_size)]
    /\ build' = NoBuild
    /\ UNCHANGED <<cfg, params, pc, loc, ep, up, down, spawned, app, ach>>

NextTree ==
    \/ \E r \in DOMAIN tree : TreeBegin(r)
    \/ TreeNextRound
    \/ TreeFinish

SpecTree == InitTree /\ [][NextTree]_vars /\ WF_vars(NextTree)

\* -------------------------------------------------------------------------
\* Properties of the tree
\* -------------------------------------------------------------------------
AllBuilt == build.rank = -1 /\ \A r \in DOMAIN tree : tree[r].rank = r

ChildSet(r) == {tree[r].child_ranks[i] : i \in 1..tree[r].children}

ParentsOf(c) == {r \in DOMAIN tree : c \in ChildSet(r)}

RECURSIVE AncestorsOf(_, _)
AncestorsOf(c, n) ==
    IF n = 0 THEN {}
    ELSE ParentsOf(c) \cup UNION {AncestorsOf(p, n - 1) : p \in ParentsOf(c)}

\* C1: with fan-out k >= 2, once tree_create_kary has run for every rank
\* 0..ranks-1, every rank 1..ranks-1 is in the child list of exactly one rank
\* (once), rank 0 is in no child list, the child lists together are exactly
\* 1..ranks-1, and no rank is its own ancestor.
C1_TreeWellFormed ==
    (AllBuilt /\ cfg.DEG >= 2) =>
        /\ \A c \in 1..(cfg.N - 1) :
              /\ Cardinality(ParentsOf(c)) = 1
              /\ \A r \in ParentsOf(c) :
                    Cardinality({i \in 1..tree[r].children : tree[r].child_ranks[i] = c}) = 1
        /\ ParentsOf(0) = {}
        /\ UNION {ChildSet(r) : r \in DOMAIN tree} = 1..(cfg.N - 1)
        /\ \A r \in DOMAIN tree : r \notin AncestorsOf(r, cfg.N)

C1_Witness ==
    /\ AllBuilt
    /\ cfg.DEG = 2
    /\ cfg.N = 6
    /\ tree[2].child_ranks = <<5>>

Min(a, b) == IF a < b THEN a ELSE b

Max(a, b) == IF a > b THEN a ELSE b

\* the run of children the claim gives rank r
ChildRun(r, ranks, k) ==
    [i \in 1..Max(0, Min(k, ranks - 1 - r * k)) |-> r * k + i]

C2_ChildRun ==
    \A r \in DOMAIN tree :
        tree[r].rank = r =>
            /\ tree[r].children = Len(tree[r].child_ranks)
            /\ tree[r].child_ranks = ChildRun(r, cfg.N, cfg.DEG)
            /\ \A c \in ChildSet(r) : (c - 1) \div cfg.DEG = r

\* C2: for every k >= 1, ranks >= 1 and rank r, tree_create_kary ends and the
\* child list of r is the contiguous run r*k+1 .. r*k+k cut at ranks-1.
C2_KaryChildren == [](C2_ChildRun) /\ <>(AllBuilt)

C2_Witness ==
    /\ AllBuilt
    /\ cfg.DEG = 1
    /\ cfg.N >= 3
    /\ tree[1].child_ranks = <<2>>
    /\ tree[cfg.N - 1].children = 0

\* -------------------------------------------------------------------------
\* Launchers, channels and the statements of session_start
\* -------------------------------------------------------------------------
Launchers == 0..(cfg.N - 1)

HostName(i) == "host" \o itoa(i)

\* spawn_net_name of the endpoint launcher r opened
EpName(r) == "ep" \o itoa(r)

\* the launcher that listens on the endpoint called name
EpOwner(name) == CHOOSE r \in Launchers : EpName(r) = name

\* getpid() of the launcher started with id r
LauncherPid(r) == 40 + r

MsgStrmap(m) == [kind |-> "strmap", data |-> strmap_pack(m)]

MsgSignal == [kind |-> "bytes", data |-> <<"A">>]

MsgStr(str) == [kind |-> "str", data |-> str]

Stmt(r) == IF pc[r] \in 1..Len(cfg.prog) THEN cfg.prog[pc[r]] ELSE "none"

\* loops over the child launchers and over the application processes: with no
\* child (no process) the loop body never runs
ChildLoops == {"launch", "accept", "handshake", "ring_scan_read",
               "copy_fork", "copy_wait"}

AppLoops == {"pmi_accept", "pmi_init", "pmi_read", "pmi_barrier", "pmi_get1",
             "pmi_get2", "pmi_finalize", "ring_accept", "ring_read", "ring_write",
             "ring_disconnect"}

RECURSIVE SkipEmpty(_, _, _)
SkipEmpty(p, children, numprocs) ==
    IF /\ p <= Len(cfg.prog)
       /\ \/ cfg.prog[p] \in ChildLoops /\ children = 0
          \/ cfg.prog[p] \in AppLoops /\ numprocs = 0
    THEN SkipEmpty(p + 1, children, numprocs)
    ELSE p

\* the statement after the current one of launcher r, whose tree is then t
NextStmt(r, t) == SkipEmpty(pc[r] + 1, t.children, cfg.PPN)

\* -------------------------------------------------------------------------
\* session_init at the root: the parameters strmap
\* -------------------------------------------------------------------------
RECURSIVE set_hosts(_, _, _)
set_hosts(m, i, argc) ==
    IF i >= argc THEN m
    ELSE set_hosts(strmap_set(m, itoa(i), HostName(i)), i + 1, argc)

find_command(m, cmd) == strmap_set(m, cmd, cmd)

session_init_params(argc, degree) ==
    LET p1 == strmap_set(strmap_new, "COPY", itoa(0))
        p2 == strmap_set(p1, "EXE", "/spawn")
        p3 == strmap_set(p2, "N", itoa(argc))
        p4 == set_hosts(p3, 0, argc)
        p5 == strmap_set(p4, "DEG", itoa(degree))
        p6 == strmap_set(p5, "SH", "rsh")
        p7 == strmap_set(p6, "LOCAL", "direct")
    IN find_command(find_command(find_command(find_command(find_command(
           find_command(p7, "ssh"), "scp"), "rsh"), "rcp"), "sh"), "env")

\* session_init of a launcher forked with MV2_SPAWN_PARENT and MV2_SPAWN_ID
\* the fields are those of the session (spawn_parent, spawn_id) and the local
\* variables of the routines: the loop index i, the accepted channels chs,
\* childmap, the strmap map of the running collective (pmi_strmap), the
\* strmaps maps read from the application processes, the strmaps scan_maps that
\* ring_scan reads from the children, input, recv and output of ring_scan,
\* of bcast_file bufsize, buf, whether the current bcast has read from the
\* parent (got) and the name it returns (newfile); scratch is the file
\* /tmp/<basename> of the host of the launcher; name2group and pid2name are
\* the indexes of the process groups, groups the process_group structures the
\* launcher has allocated (a pointer is an index into it, 0 is NULL) and pg
\* the pointer process_group_start returns; pids are the remote-copy helpers
\* the launcher forked, each with its host and the state of its process;
\* mpir holds MPIR_proctable, MPIR_proctable_size and MPIR_debug_state of the
\* process, and the number of its calls of MPIR_Breakpoint
session_new ==
    [spawn_parent |-> NULL, spawn_id |-> NULL, i |-> 0, chs |-> <<>>,
     childmap |-> strmap_new, map |-> strmap_new, maps |-> <<>>,
     scan_maps |-> <<>>, input |-> strmap_new, recv |-> strmap_new,
     output |-> strmap_new, got |-> FALSE, bufsize |-> 0, buf |-> <<>>,
     newfile |-> NULL, scratch |-> [exists |-> FALSE, bytes |-> <<>>],
     name2group |-> strmap_new, pid2name |-> strmap_new, groups |-> <<>>, pg |-> 0,
     pids |-> <<>>,
     mpir |-> [proctable |-> <<>>, size |-> 0, debug_state |-> 0, breakpoints |-> 0],
     fifo |-> FALSE, times |-> <<>>]

session_init_child(parent, id) ==
    [session_new EXCEPT !.spawn_parent = parent, !.spawn_id = id]

\* -------------------------------------------------------------------------
\* session_start: unfurl of the tree
\* -------------------------------------------------------------------------
UnfurlProg == <<"connect", "read_params", "identify", "launch", "accept",
                "handshake", "signal_to_root">>

InitUnfurl ==
    /\ cfg \in [N : 1..MaxN, DEG : 1..MaxDeg, PPN : {1}, prog : {UnfurlProg}]
    /\ tree = [r \in Launchers |-> tree_new]
    /\ build = NoBuild
    /\ params = [r \in Launchers |->
                    IF r = 0 THEN session_init_params(cfg.N, cfg.DEG) ELSE strmap_new]
    /\ pc = [r \in Launchers |-> IF r = 0 THEN 3 ELSE 0]
    /\ loc = [r \in Launchers |-> session_new]
    /\ ep = [r \in Launchers |-> <<>>]
    /\ up = [c \in 1..(cfg.N - 1) |-> <<>>]
    /\ down = [c \in 1..(cfg.N - 1) |-> <<>>]
    /\ spawned = [c \in 1..(cfg.N - 1) |-> <<>>]
    /\ app = <<>>
    /\ ach = <<>>

\* connect back to the parent and send {ID, PID}
ConnectParent(r) ==
    /\ Stmt(r) = "connect"
    /\ LET parent == EpOwner(loc[r].spawn_parent)
           idmap  == strmap_set(strmap_set(strmap_new, "ID", loc[r].spawn_id),
                                "PID", itoa(LauncherPid(r)))
       IN /\ ep' = [ep EXCEPT ![parent] = Append(@, r)]
          /\ tree' = [tree EXCEPT ![r].parent_ch = r]
          /\ up' = [up EXCEPT ![r] = Append(@, MsgStrmap(idmap))]
    /\ pc' = [pc EXCEPT ![r] = @ + 1]
    /\ UNCHANGED <<cfg, build, params, loc, down, spawned, app, ach>>

\* read the parameters from the parent
ReadParams(r) ==
    /\ Stmt(r) = "read_params"
    /\ down[tree[r].parent_ch] # <<>>
    /\ params' = [params EXCEPT ![r] =
                     strmap_unpack(Head(down[tree[r].parent_ch]).data, @)]
    /\ down' = [down EXCEPT ![tree[r].parent_ch] = Tail(@)]
    /\ pc' = [pc EXCEPT ![r] = @ + 1]
    /\ UNCHANGED <<cfg, tree, build, loc, ep, up, spawned, app, ach>>

\* identify our children: tree_create_kary from N, DEG and our id
IdentifyChildren(r) ==
    /\ Stmt(r) = "identify"
    /\ LET hosts  == strmap_get(params[r], "N")
           value  == strmap_get(params[r], "DEG")
           degree == IF value # NULL THEN atoi(value) ELSE 2
           rank   == IF loc[r].spawn_id # NULL THEN atoi(loc[r].spawn_id) ELSE 0
           t      == IF hosts # NULL
                     THEN tree_create_kary(rank, atoi(hosts), degree, tree[r])
                     ELSE tree[r]
       IN /\ tree' = [tree EXCEPT ![r] = t]
          /\ pc' = [pc EXCEPT ![r] = NextStmt(r, t)]
    /\ loc' = [loc EXCEPT ![r].i = 0]
    /\ UNCHANGED <<cfg, build, params, ep, up, down, spawned, app, ach>>

\* what goes wrong with the fork_proc of the launcher with id c, if anything:
\* "fork" when fork() fails (fork_proc returns -1), "exec" when the exec fails
\* in the forked process, which exits
SpawnFault(c) ==
    IF "failed" \in DOMAIN cfg /\ cfg.failed = c THEN cfg.fault ELSE "none"

\* launch child i: fork_proc of the launcher on the child's host
LaunchChild(r) ==
    /\ Stmt(r) = "launch"
    /\ LET i          == loc[r].i
           child_rank == tree[r].child_ranks[i + 1]
           host       == strmap_get(params[r], itoa(child_rank))
           last       == i + 1 = tree[r].children
       IN IF host = NULL
          THEN /\ pc' = [pc EXCEPT ![r] = -1]
               /\ UNCHANGED <<tree, loc, spawned>>
          ELSE /\ spawned' = [spawned EXCEPT ![child_rank] =
                      IF SpawnFault(child_rank) # "none" THEN @
                      ELSE Append(@, [by |-> r, host |-> host,
                                      MV2_SPAWN_PARENT |-> EpName(r),
                                      MV2_SPAWN_ID |-> itoa(child_rank)])]
               /\ tree' = [tree EXCEPT
                      ![r].child_hosts[i + 1] = host,
                      ![r].child_pids[i + 1] =
                          IF SpawnFault(child_rank) = "fork" THEN -1
                          ELSE LauncherPid(child_rank)]
               /\ loc' = [loc EXCEPT
                      ![r].childmap = strmap_set(@, itoa(child_rank), itoa(i)),
                      ![r].i = IF last THEN 0 ELSE i + 1,
                      ![child_rank] =
                          IF SpawnFault(child_rank) # "none" THEN @
                          ELSE session_init_child(EpName(r), itoa(child_rank))]
               /\ pc' = [pc EXCEPT
                      ![r] = IF last THEN @ + 1 ELSE @,
                      ![child_rank] = CASE SpawnFault(child_rank) = "fork" -> 0
                                        [] SpawnFault(child_rank) = "exec" -> -2
                                        [] OTHER -> 1]
    /\ UNCHANGED <<cfg, build, params, ep, up, down, app, ach>>

\* accept one connection on s->ep
AcceptChild(r) ==
    /\ Stmt(r) = "accept"
    /\ ep[r] # <<>>
    /\ LET last == loc[r].i + 1 = tree[r].children
       IN /\ loc' = [loc EXCEPT ![r].chs = Append(@, Head(ep[r])),
                                ![r].i = IF last THEN 0 ELSE @ + 1]
          /\ pc' = [pc EXCEPT ![r] = IF last THEN @ + 1 ELSE @]
    /\ ep' = [ep EXCEPT ![r] = Tail(@)]
    /\ UNCHANGED <<cfg, tree, build, params, up, down, spawned, app, ach>>

\* mutant: the channel is filed in the order of accept
handshake_index_by_order(r, idmap) == loc[r].i

\* the local index of the child that sent idmap: its ID looked up in childmap
handshake_index(r, idmap) ==
    LET str   == strmap_get(idmap, "ID")
        value == strmap_get(loc[r].childmap, str)
    IN atoi(value)

\* mutant: the reply carries no parameters
handshake_reply_empty(r) == MsgStrmap(strmap_new)

\* the parameters sent to a child
handshake_reply(r) == MsgStrmap(params[r])

\* read {ID, PID} from accepted connection i, file the channel under the slot
\* of that ID and send the parameters
HandshakeChild(r) ==
    /\ Stmt(r) = "handshake"
    /\ LET ch    == loc[r].chs[loc[r].i + 1]
           last  == loc[r].i + 1 = tree[r].children
       IN /\ up[ch] # <<>>
          /\ LET idmap == strmap_unpack(Head(up[ch]).data, strmap_new)
                 index == handshake_index(r, idmap)
             IN tree' = [tree EXCEPT ![r].child_chs[index + 1] = ch]
          /\ up' = [up EXCEPT ![ch] = Tail(@)]
          /\ down' = [down EXCEPT ![ch] = Append(@, handshake_reply(r))]
          /\ loc' = [loc EXCEPT ![r].i = IF last THEN 0 ELSE @ + 1,
                                ![r].chs = IF last THEN <<>> ELSE @,
                                ![r].childmap = IF last THEN strmap_new ELSE @]
          /\ pc' = [pc EXCEPT ![r] = IF last THEN @ + 1 ELSE @]
    /\ UNCHANGED <<cfg, build, params, ep, spawned, app, ach>>

\* mutant: the signal is forwarded without waiting for any child
signal_to_root_reads_none(t) == 0

\* mutant: the signal is forwarded after that of the first child
signal_to_root_reads_first(t) == IF t.children > 0 THEN 1 ELSE 0

\* the number of children signal_to_root reads a signal from
signal_to_root_reads(t) == t.children

\* signal_to_root: wait for the signal of child i
SignalToRootRead(r) ==
    /\ Stmt(r) = "signal_to_root"
    /\ loc[r].i < signal_to_root_reads(tree[r])
    /\ LET ch == tree[r].child_chs[loc[r].i + 1]
       IN IF ch = SPAWN_NET_CHANNEL_NULL
          THEN UNCHANGED up
          ELSE /\ up[ch] # <<>>
               /\ up' = [up EXCEPT ![ch] = Tail(@)]
    /\ loc' = [loc EXCEPT ![r].i = @ + 1]
    /\ UNCHANGED <<cfg, tree, build, params, pc, ep, down, spawned, app, ach>>

\* signal_to_root: forward the signal to the parent
SignalToRootWrite(r) ==
    /\ Stmt(r) = "signal_to_root"
    /\ loc[r].i = signal_to_root_reads(tree[r])
    /\ IF tree[r].parent_ch # SPAWN_NET_CHANNEL_NULL
       THEN up' = [up EXCEPT ![tree[r].parent_ch] = Append(@, MsgSignal)]
       ELSE UNCHANGED up
    /\ loc' = [loc EXCEPT ![r].i = 0]
    /\ pc' = [pc EXCEPT ![r] = NextStmt(r, tree[r])]
    /\ UNCHANGED <<cfg, tree, build, params, ep, down, spawned, app, ach>>

NextUnfurl ==
    \E r \in Launchers :
        \/ ConnectParent(r)
        \/ ReadParams(r)
        \/ IdentifyChildren(r)
        \/ LaunchChild(r)
        \/ AcceptChild(r)
        \/ HandshakeChild(r)
        \/ SignalToRootRead(r)
        \/ SignalToRootWrite(r)

SpecUnfurl == InitUnfurl /\ [][NextUnfurl]_vars

\* -------------------------------------------------------------------------
\* Properties of the unfurl
\* -------------------------------------------------------------------------
\* the index in cfg.prog of the first statement stmt
FirstStmt(stmt) ==
    CHOOSE p \in 1..Len(cfg.prog) :
        cfg.prog[p] = stmt /\ \A q \in 1..(p - 1) : cfg.prog[q] # stmt

\* launcher r has completed the first statement stmt of session_start
Past(r, stmt) == pc[r] > FirstStmt(stmt)

\* C3: when the root's first signal_to_root has returned (DEG >= 2), every
\* rank 1..N-1 has been forked exactly once, by launcher (r-1) div DEG, on
\* host params[r], with MV2_SPAWN_ID = r and MV2_SPAWN_PARENT = the name of
\* that launcher's endpoint, has connected to it and has the parameters.
C3_UnfurlComplete ==
    (cfg.DEG >= 2 /\ Past(0, "signal_to_root")) =>
        \A r \in 1..(cfg.N - 1) :
            LET parent == (r - 1) \div cfg.DEG
            IN /\ Len(spawned[r]) = 1
               /\ spawned[r][1].by = parent
               /\ spawned[r][1].host = strmap_get(params[0], itoa(r))
               /\ spawned[r][1].host # NULL
               /\ spawned[r][1].MV2_SPAWN_ID = itoa(r)
               /\ spawned[r][1].MV2_SPAWN_PARENT = EpName(parent)
               /\ tree[r].parent_ch # SPAWN_NET_CHANNEL_NULL
               /\ \E i \in 1..tree[parent].children :
                     tree[parent].child_chs[i] = tree[r].parent_ch
               /\ Past(r, "read_params")
               /\ params[r] # strmap_new

C3_Witness ==
    /\ cfg.DEG = 2
    /\ cfg.N = MaxN
    /\ Past(0, "signal_to_root")
    /\ Len(spawned[3]) = 1
    /\ spawned[3][1].by = 1

\* the slots of launcher r filled with the channel of the child of that slot
FanInById(r, n) ==
    \A j \in 1..n :
        LET ch == loc[r].chs[j]
        IN \E i \in 1..tree[r].children :
              /\ itoa(tree[r].child_ranks[i]) = loc[ch].spawn_id
              /\ tree[r].child_chs[i] = ch

C4_FanInState ==
    \A r \in Launchers :
        /\ Stmt(r) = "handshake" =>
              /\ Len(loc[r].chs) = tree[r].children
              /\ Cardinality({loc[r].chs[j] : j \in DOMAIN loc[r].chs}) = tree[r].children
              /\ FanInById(r, loc[r].i)
              /\ Cardinality({i \in 1..tree[r].children :
                     tree[r].child_chs[i] # SPAWN_NET_CHANNEL_NULL}) = loc[r].i
        /\ Past(r, "handshake") =>
              /\ \A i \in 1..tree[r].children :
                    /\ tree[r].child_chs[i] # SPAWN_NET_CHANNEL_NULL
                    /\ loc[tree[r].child_chs[i]].spawn_id = itoa(tree[r].child_ranks[i])
              /\ ep[r] = <<>>

\* a filled slot is not filled again
C4_FilledOnce ==
    \A r \in Launchers : \A i \in DOMAIN tree[r].child_chs :
        tree[r].child_chs[i] # SPAWN_NET_CHANNEL_NULL =>
            tree'[r].child_chs[i] = tree[r].child_chs[i]

\* C4: whatever the order in which the children of a launcher connect and are
\* accepted, the handshake files the channel of the launcher that sent
\* ID = child_ranks[i] in slot i; every slot is filled exactly once and
\* exactly `children` connections are accepted.
C4_FanInById == [](C4_FanInState) /\ [][C4_FilledOnce]_vars

\* the second child was accepted first and its channel is in the second slot
C4_Witness ==
    /\ Stmt(0) = "handshake"
    /\ loc[0].i = 1
    /\ loc[0].chs[1] = 2
    /\ tree[0].child_chs[1] = SPAWN_NET_CHANNEL_NULL
    /\ tree[0].child_chs[2] = 2

Pairs(m) == {m[i] : i \in DOMAIN m}

\* C5: after the handshake with its parent a launcher has the keys and values
\* of the root's parameters, and it computes its tree and forks its children
\* only after it has read them.
C5_ParamsPropagated ==
    \A r \in Launchers \ {0} :
        /\ Past(r, "read_params") =>
              /\ Pairs(params[r]) = Pairs(params[0])
              /\ Len(params[r]) = Len(params[0])
        /\ ~Past(r, "read_params") =>
              /\ tree[r].rank = -1
              /\ \A c \in DOMAIN spawned : \A j \in DOMAIN spawned[c] :
                    spawned[c][j].by # r

C5_Witness ==
    /\ cfg.N = MaxN
    /\ cfg.DEG = 2
    /\ Past(3, "read_params")
    /\ strmap_get(params[3], "N") = itoa(MaxN)
    /\ ~Past(2, "read_params")

\* -------------------------------------------------------------------------
\* The tree once it is unfurled: every launcher has the channel of its parent
\* and the channels of its children in the slots of their ids
\* -------------------------------------------------------------------------
UnfurledTree(r) ==
    LET t == tree_create_kary(r, cfg.N, cfg.DEG,
                 [tree_new EXCEPT !.parent_ch =
                     IF r = 0 THEN SPAWN_NET_CHANNEL_NULL ELSE r])
    IN [t EXCEPT
          !.child_chs = [i \in DOMAIN t.child_chs |->
              IF i <= t.children THEN t.child_ranks[i] ELSE SPAWN_NET_CHANNEL_NULL],
          !.child_hosts = [i \in DOMAIN t.child_hosts |->
              IF i <= t.children THEN HostName(t.child_ranks[i]) ELSE NULL],
          !.child_pids = [i \in DOMAIN t.child_pids |->
              IF i <= t.children THEN LauncherPid(t.child_ranks[i]) ELSE -1]]

UnfurledSession(r) ==
    IF r = 0 THEN session_new
    ELSE session_init_child(EpName((r - 1) \div cfg.DEG), itoa(r))

\* -------------------------------------------------------------------------
\* Collectives over the tree
\* -------------------------------------------------------------------------
\* mutant: the signal is forwarded without waiting for the parent
signal_from_root_reads_none(t) == FALSE

\* whether signal_from_root reads a signal from the parent
signal_from_root_reads(t) == t.parent_ch # SPAWN_NET_CHANNEL_NULL

\* signal_from_root: wait for the signal of the parent, forward it to every child
SignalFromRoot(r) ==
    /\ Stmt(r) = "signal_from_root"
    /\ LET t == tree[r]
           p == t.parent_ch
           chs == {t.child_chs[i] : i \in 1..t.children}
       IN /\ signal_from_root_reads(t) => down[p] # <<>>
          /\ down' = [c \in DOMAIN down |->
                        IF c = p /\ signal_from_root_reads(t) THEN Tail(down[c])
                        ELSE IF c \in chs THEN Append(down[c], MsgSignal)
                        ELSE down[c]]
    /\ pc' = [pc EXCEPT ![r] = NextStmt(r, tree[r])]
    /\ UNCHANGED <<cfg, tree, build, params, loc, ep, up, spawned, app, ach>>

\* mutant: the strmap of the child is dropped
gather_strmap_read_drop(map, buf) == map

\* the map after spawn_net_read_strmap(ch, map) of the packed strmap buf
gather_strmap_read(map, buf) == strmap_unpack(buf, map)

\* gather_strmap: read the strmap of child i into map
GatherRead(r) ==
    /\ Stmt(r) = "gather_strmap"
    /\ loc[r].i < tree[r].children
    /\ LET ch == tree[r].child_chs[loc[r].i + 1]
       IN /\ up[ch] # <<>>
          /\ loc' = [loc EXCEPT ![r].map = gather_strmap_read(@, Head(up[ch]).data),
                                ![r].i = @ + 1]
          /\ up' = [up EXCEPT ![ch] = Tail(@)]
    /\ UNCHANGED <<cfg, tree, build, params, pc, ep, down, spawned, app, ach>>

\* gather_strmap: forward map to the parent
GatherWrite(r) ==
    /\ Stmt(r) = "gather_strmap"
    /\ loc[r].i = tree[r].children
    /\ IF tree[r].parent_ch # SPAWN_NET_CHANNEL_NULL
       THEN up' = [up EXCEPT ![tree[r].parent_ch] = Append(@, MsgStrmap(loc[r].map))]
       ELSE UNCHANGED up
    /\ loc' = [loc EXCEPT ![r].i = 0]
    /\ pc' = [pc EXCEPT ![r] = NextStmt(r, tree[r])]
    /\ UNCHANGED <<cfg, tree, build, params, ep, down, spawned, app, ach>>

\* mutant: the map of the parent is dropped
bcast_strmap_read_drop(map, buf) == map

\* the map after spawn_net_read_strmap(p, map) of the packed strmap buf
bcast_strmap_read(map, buf) == strmap_unpack(buf, map)

\* bcast_strmap: read map from the parent, send it to every child
BcastStrmap(r) ==
    /\ Stmt(r) = "bcast_strmap"
    /\ LET t == tree[r]
           p == t.parent_ch
           chs == {t.child_chs[i] : i \in 1..t.children}
           map == IF p # SPAWN_NET_CHANNEL_NULL /\ down[p] # <<>>
                  THEN bcast_strmap_read(loc[r].map, Head(down[p]).data)
                  ELSE loc[r].map
       IN /\ p # SPAWN_NET_CHANNEL_NULL => down[p] # <<>>
          /\ loc' = [loc EXCEPT ![r].map = map]
          /\ down' = [c \in DOMAIN down |->
                        IF c = p THEN Tail(down[c])
                        ELSE IF c \in chs THEN Append(down[c], MsgStrmap(map))
                        ELSE down[c]]
    /\ pc' = [pc EXCEPT ![r] = NextStmt(r, tree[r])]
    /\ UNCHANGED <<cfg, tree, build, params, ep, up, spawned, app, ach>>

\* -------------------------------------------------------------------------
\* allgather_strmap between two signal waves, over every input
\* -------------------------------------------------------------------------
AllgatherProg == <<"signal_from_root", "gather_strmap", "bcast_strmap",
                   "signal_to_root">>

\* the inputs a launcher may bring: nothing, a key of its own, the key "K"
\* that every launcher may bring, or both
AllgatherInput(r, n) ==
    LET own == <<"k" \o itoa(r), "v" \o itoa(r)>>
        all == <<"K", "v" \o itoa(r)>>
    IN CASE n = 0 -> strmap_new
         [] n = 1 -> <<own>>
         [] n = 2 -> <<all>>
         [] OTHER -> <<all, own>>

InitAllgather ==
    /\ \E N \in 1..MaxN, DEG \in 1..MaxDeg :
          \E inp \in [0..(N - 1) -> 0..3] :
              cfg = [N |-> N, DEG |-> DEG, PPN |-> 1, prog |-> AllgatherProg,
                     inp |-> inp]
    /\ tree = [r \in Launchers |-> UnfurledTree(r)]
    /\ build = NoBuild
    /\ params = [r \in Launchers |-> session_init_params(cfg.N, cfg.DEG)]
    /\ pc = [r \in Launchers |-> 1]
    /\ loc = [r \in Launchers |->
                 [UnfurledSession(r) EXCEPT !.map = AllgatherInput(r, cfg.inp[r])]]
    /\ ep = [r \in Launchers |-> <<>>]
    /\ up = [c \in 1..(cfg.N - 1) |-> <<>>]
    /\ down = [c \in 1..(cfg.N - 1) |-> <<>>]
    /\ spawned = <<>>
    /\ app = <<>>
    /\ ach = <<>>

NextAllgather ==
    \E r \in Launchers :
        \/ SignalFromRoot(r)
        \/ GatherRead(r)
        \/ GatherWrite(r)
        \/ BcastStrmap(r)
        \/ SignalToRootRead(r)
        \/ SignalToRootWrite(r)

SpecAllgather == InitAllgather /\ [][NextAllgather]_vars

\* the launchers of the subtree of r: r, then the subtrees of its children
RECURSIVE PreOrder(_)
RECURSIVE PreOrderOf(_, _)
PreOrderOf(cs, i) ==
    IF i > Len(cs) THEN <<>> ELSE PreOrder(cs[i]) \o PreOrderOf(cs, i + 1)

PreOrder(r) == <<r>> \o PreOrderOf(tree[r].child_ranks, 1)

RECURSIVE MergeInputs(_, _)
MergeInputs(m, rs) ==
    IF rs = <<>> THEN m
    ELSE MergeInputs(strmap_merge(m, AllgatherInput(rs[1], cfg.inp[rs[1]])), Tail(rs))

AllReturned == \A r \in Launchers : pc[r] > Len(cfg.prog)

\* C6: after allgather_strmap has returned on every launcher, every launcher
\* holds the merge of the inputs of all launchers, later insertions overriding
\* earlier ones, in one order: the same key sequence and the same values.
C6_AllgatherConverges ==
    AllReturned =>
        \A r \in Launchers :
            loc[r].map = MergeInputs(strmap_new, PreOrder(0))

\* what holds of the code: every launcher has the pairs of that merge
AllgatherSamePairs ==
    AllReturned =>
        \A r \in Launchers :
            /\ Pairs(loc[r].map) = Pairs(MergeInputs(strmap_new, PreOrder(0)))
            /\ Len(loc[r].map) = Cardinality(strmap_keys(loc[r].map))
            /\ r = 0 => loc[r].map = MergeInputs(strmap_new, PreOrder(0))

\* -------------------------------------------------------------------------
\* Application processes. A process is named by its launcher and the index of
\* its fork; it runs the client side of the protocol as the specification
\* gives it (the client library is not part of the sources)
\* -------------------------------------------------------------------------
Apps == {<<l, j>> : l \in Launchers, j \in 0..(cfg.PPN - 1)}

AppKey(a) == "k" \o itoa(a[1]) \o "_" \o itoa(a[2])

AppVal(a) == "v" \o itoa(a[1]) \o "_" \o itoa(a[2])

\* the strmap a process commits: a key of its own and the key "K" that every
\* process commits
AppCommit(a) == <<<<AppKey(a), AppVal(a)>>, <<"K", AppVal(a)>>>>

\* the process whose key process a asks for first: one of the next launcher
AppPeer(a) == <<(a[1] + 1) % cfg.N, (a[2] + 1) % cfg.PPN>>

\* the keys of the two GETs of a process: the key of its peer, then its own
AppGetKey(a, round) == IF round = 1 THEN AppKey(AppPeer(a)) ELSE AppKey(a)

app_new ==
    [pc |-> "unborn", exe |-> NULL, init |-> strmap_new, val1 |-> NULL, val2 |-> NULL,
     via |-> NULL, conn |-> NULL]

ach_new == [up |-> <<>>, down |-> <<>>, open |-> FALSE, kind |-> NULL]

\* the executable of the application processes: the name bcast_file returned
\* when the binary is broadcast, or else EXE of the parameters
app_exe(r) == IF "file" \in DOMAIN cfg THEN loc[r].newfile ELSE "/bin/hostname"

\* the pid of an application process on its host
AppPid(a) == 50 + a[2]

\* "%p" of a pointer
ptr_print(p) == "0x" \o itoa(p)

\* sscanf of "%p": the pointer that prints as str
ptr_scan(str) ==
    IF \E p \in 1..9 : ptr_print(p) = str
    THEN CHOOSE p \in 1..9 : ptr_print(p) = str
    ELSE 0

\* "%llu" of (unsigned long long) pid: -1, the result of a failed fork,
\* converts to 2^64 - 1
pid_print(pid) == IF pid < 0 THEN "18446744073709551615" ELSE itoa(pid)

process_group_new ==
    [name |-> NULL, params |-> strmap_new, num |-> 0, pids |-> <<>>, freed |-> FALSE]

\* mutant: the name is not recorded
process_group_map_name_skip(s, name, p) == s

\* record the mapping of a group name to the pointer to its structure
process_group_map_name(s, name, p) ==
    [s EXCEPT !.name2group = strmap_set(@, name, ptr_print(p))]

\* the pointer of the group of that name, NULL if not found
process_group_by_name(s, name) ==
    LET pg_str == strmap_get(s.name2group, name)
    IN IF pg_str # NULL THEN ptr_scan(pg_str) ELSE 0

\* record the mapping of a pid to the name of its group
process_group_map_pid(s, p, pid) ==
    [s EXCEPT !.pid2name = strmap_set(@, pid_print(pid), s.groups[p].name)]

\* the name of the group of that pid, NULL if not found
process_group_by_pid(s, pid) == strmap_get(s.pid2name, pid_print(pid))

\* the name of the group: NAME of the application parameters, which are in
\* map where the run broadcasts them (cfg.appmap), and which the root sets to
\* GROUP_0
group_name(r) ==
    IF "appmap" \in DOMAIN cfg THEN strmap_get(loc[r].map, "NAME") ELSE "GROUP_0"

\* the loop of process_group_start over the processes from the i-th on:
\* pg->pids[i] = pid and process_group_map_pid
RECURSIVE group_pids(_, _, _, _)
group_pids(s, p, pids, i) ==
    IF i > Len(pids) THEN s
    ELSE group_pids(
             process_group_map_pid([s EXCEPT !.groups[p].pids = Append(@, pids[i])],
                                   p, pids[i]),
             p, pids, i + 1)

\* what process_group_start does to the session: a new group with the name
\* and the number of processes, the name mapped to it, and the pids
process_group_start(s, name, appmap, pids) ==
    LET p == Len(s.groups) + 1
        pg == [process_group_new EXCEPT !.name = name, !.params = appmap,
                                        !.num = Len(pids)]
        s1 == process_group_map_name([s EXCEPT !.groups = Append(@, pg), !.pg = p],
                                     name, p)
    IN group_pids(s1, p, pids, 1)

\* mutant: a local process is always exec'd directly
local_exec_direct(p) == "exec_direct"

\* fork_proc with host NULL: what the forked process does, by the LOCAL key
\* of the parameters; where nothing is exec'd it exits with failure
local_exec(p) ==
    LET local == strmap_get(p, "LOCAL")
    IN CASE local = "sh" -> "exec_shell"
         [] local = "direct" -> "exec_direct"
         [] OTHER -> "_exit"

\* mutant: the application parameters are merged into those of the session
group_params_merged(p, name) == strmap_set(p, "NAME", name)

\* the parameters of the session after process_group_start, which copies the
\* application parameters into pg->params and only reads s->params
group_params(p, name) == p

\* process_group_start: the new group, and the fork of the numprocs
\* application processes (the signal_from_root between the two is the
\* statement before this one)
LaunchApps(r) ==
    /\ Stmt(r) = "launch_apps"
    /\ app' = [a \in DOMAIN app |->
                 IF a[1] = r
                 THEN [app[a] EXCEPT
                          !.pc = IF local_exec(params[r]) = "_exit" THEN "exited"
                                 ELSE "exec",
                          !.exe = app_exe(r),
                          !.via = local_exec(params[r])]
                 ELSE app[a]]
    /\ loc' = [loc EXCEPT ![r] =
                 process_group_start(@, group_name(r),
                     IF "appmap" \in DOMAIN cfg THEN loc[r].map ELSE strmap_new,
                     [i \in 1..cfg.PPN |-> AppPid(<<r, i - 1>>)])]
    /\ params' = [params EXCEPT ![r] = group_params(@, group_name(r))]
    /\ pc' = [pc EXCEPT ![r] = NextStmt(r, tree[r])]
    /\ UNCHANGED <<cfg, tree, build, ep, up, down, spawned, ach>>

\* the process connects to MV2_PMI_ADDR, the endpoint of its launcher
AppConnect(a) ==
    /\ app[a].pc = "exec"
    /\ ep' = [ep EXCEPT ![a[1]] = Append(@, a)]
    /\ ach' = [ach EXCEPT ![a].open = TRUE, ![a].kind = "pmi"]
    /\ app' = [app EXCEPT ![a].pc = "connected", ![a].conn = "pmi"]
    /\ UNCHANGED <<cfg, tree, build, params, pc, loc, up, down, spawned>>

\* chs[i] = spawn_net_accept(ep)
AppAccept(r) ==
    /\ ep[r] # <<>>
    /\ LET last == loc[r].i + 1 = cfg.PPN
       IN /\ loc' = [loc EXCEPT ![r].chs = Append(@, Head(ep[r])),
                                ![r].i = IF last THEN 0 ELSE @ + 1]
          /\ pc' = [pc EXCEPT ![r] = IF last THEN NextStmt(r, tree[r]) ELSE @]
    /\ ep' = [ep EXCEPT ![r] = Tail(@)]
    /\ UNCHANGED <<cfg, tree, build, params, up, down, spawned, app, ach>>

PmiAccept(r) == Stmt(r) = "pmi_accept" /\ AppAccept(r)

\* mutant: the rank of the launcher is not scaled by the number of processes
pmi_child_rank_unscaled(rank, numprocs, i) == rank + i

pmi_child_rank(rank, numprocs, i) == rank * numprocs + i

pmi_init(t, numprocs, i) ==
    LET ranks == t.ranks * numprocs
        jobid == 0
    IN strmap_set(strmap_set(strmap_set(strmap_new,
           "RANK", itoa(pmi_child_rank(t.rank, numprocs, i))),
           "RANKS", itoa(ranks)),
           "JOBID", itoa(jobid))

\* what one statement of the launcher writes to the accepted channels: msgs[i]
\* is the sequence of messages for chs[i]
WriteApps(r, msgs) ==
    ach' = [a \in DOMAIN ach |->
              IF \E i \in 1..Len(loc[r].chs) : loc[r].chs[i] = a
              THEN LET i == CHOOSE i \in 1..Len(loc[r].chs) : loc[r].chs[i] = a
                   IN [ach[a] EXCEPT !.down = @ \o msgs[i]]
              ELSE ach[a]]

\* send init data to children
PmiInit(r) ==
    /\ Stmt(r) = "pmi_init"
    /\ LET msgs == [i \in 1..Len(loc[r].chs) |->
                       <<MsgStrmap(pmi_init(tree[r], cfg.PPN, i - 1))>>]
       IN WriteApps(r, msgs)
    /\ pc' = [pc EXCEPT ![r] = NextStmt(r, tree[r])]
    /\ UNCHANGED <<cfg, tree, build, params, loc, ep, up, down, spawned, app>>

\* what process a does wrong, if anything: "get" sends GET where BARRIER is
\* due, "close" closes its channel there
AppFault(a) ==
    IF "rogue" \in DOMAIN cfg /\ cfg.rogue = a THEN cfg.fault ELSE "none"

\* process a has closed its channel: a read of the launcher from it fails
PeerClosed(a) == app[a].pc = "closed"

\* the process reads its init strmap, then sends BARRIER and what it commits
AppInit(a) ==
    /\ app[a].pc = "connected"
    /\ ach[a].down # <<>>
    /\ app' = [app EXCEPT ![a].init = strmap_unpack(Head(ach[a].down).data, strmap_new),
                          ![a].pc = IF AppFault(a) = "close" THEN "closed"
                                    ELSE "committed"]
    /\ ach' = [ach EXCEPT
           ![a].down = Tail(@),
           ![a].up = IF AppFault(a) = "close" THEN @
                     ELSE @ \o <<MsgStr(IF AppFault(a) = "get" THEN "GET" ELSE "BARRIER"),
                                 MsgStrmap(AppCommit(a))>>]
    /\ UNCHANGED <<cfg, tree, build, params, pc, loc, ep, up, down, spawned>>

\* the loop of a launcher over its channels goes to the next channel, and
\* after the last to the next statement
NextApp(r) ==
    LET last == loc[r].i + 1 = cfg.PPN
    IN /\ pc' = [pc EXCEPT ![r] = IF last THEN NextStmt(r, tree[r]) ELSE @]
       /\ UNCHANGED <<cfg, tree, build, params, ep, up, down, spawned, app>>

\* pmi_strmap after the two reads from a channel that holds chup: cmd goes
\* unlooked at, the strmap is merged; the reads from a channel that the peer
\* has closed fail, their results go unlooked at, and pmi_strmap is as before
pmi_read(map, chup) ==
    IF chup = <<>> THEN map ELSE strmap_unpack(chup[2].data, map)

\* wait for BARRIER messages: read cmd, then the strmap into pmi_strmap
PmiRead(r) ==
    /\ Stmt(r) = "pmi_read"
    /\ LET ch == loc[r].chs[loc[r].i + 1]
           last == loc[r].i + 1 = cfg.PPN
       IN /\ Len(ach[ch].up) >= 2 \/ PeerClosed(ch)
          /\ loc' = [loc EXCEPT ![r].map = pmi_read(@, ach[ch].up),
                                ![r].i = IF last THEN 0 ELSE @ + 1]
          /\ ach' = [ach EXCEPT ![ch].up = IF @ = <<>> THEN @ ELSE Tail(Tail(@))]
    /\ NextApp(r)

\* send BARRIER message back to child app procs
PmiBarrier(r) ==
    /\ Stmt(r) = "pmi_barrier"
    /\ LET msgs == [i \in 1..Len(loc[r].chs) |-> <<MsgStr("BARRIER")>>]
       IN WriteApps(r, msgs)
    /\ pc' = [pc EXCEPT ![r] = NextStmt(r, tree[r])]
    /\ UNCHANGED <<cfg, tree, build, params, loc, ep, up, down, spawned, app>>

\* the process leaves the barrier and asks for its first key
AppBarrier(a) ==
    /\ app[a].pc = "committed"
    /\ ach[a].down # <<>>
    /\ app' = [app EXCEPT ![a].pc = "get1"]
    /\ ach' = [ach EXCEPT ![a].down = Tail(@),
                          ![a].up = @ \o <<MsgStr("GET"), MsgStr(AppGetKey(a, 1))>>]
    /\ UNCHANGED <<cfg, tree, build, params, pc, loc, ep, up, down, spawned>>

\* the string written for the value of key: strmap_get gives NULL for a key
\* that is not there, and the string of a NULL is the empty one
pmi_get_reply(map, key) ==
    LET val == strmap_get(map, key)
    IN IF val = NULL THEN "" ELSE val

\* handle a GET request: read cmd and key, write the value (cmd is not looked at)
PmiGet(r) ==
    /\ Stmt(r) \in {"pmi_get1", "pmi_get2"}
    /\ LET ch == loc[r].chs[loc[r].i + 1]
           last == loc[r].i + 1 = cfg.PPN
       IN /\ Len(ach[ch].up) >= 2 \/ PeerClosed(ch)
          /\ ach' = [ach EXCEPT
                 ![ch].up = IF Len(@) < 2 THEN <<>> ELSE Tail(Tail(@)),
                 ![ch].down = IF PeerClosed(ch) THEN @
                              ELSE Append(@, MsgStr(pmi_get_reply(loc[r].map,
                                                        ach[ch].up[2].data)))]
          /\ loc' = [loc EXCEPT ![r].i = IF last THEN 0 ELSE @ + 1]
    /\ NextApp(r)

\* the process has the value of its first key and asks for the second
AppGet1(a) ==
    /\ app[a].pc = "get1"
    /\ ach[a].down # <<>>
    /\ app' = [app EXCEPT ![a].val1 = Head(ach[a].down).data, ![a].pc = "get2"]
    /\ ach' = [ach EXCEPT ![a].down = Tail(@),
                          ![a].up = @ \o <<MsgStr("GET"), MsgStr(AppGetKey(a, 2))>>]
    /\ UNCHANGED <<cfg, tree, build, params, pc, loc, ep, up, down, spawned>>

\* the process has the value of its second key and finalizes
AppGet2(a) ==
    /\ app[a].pc = "get2"
    /\ ach[a].down # <<>>
    /\ app' = [app EXCEPT ![a].val2 = Head(ach[a].down).data,
                          ![a].pc = IF "ring" \in DOMAIN cfg THEN "pmi_done" ELSE "done"]
    /\ ach' = [ach EXCEPT ![a].down = Tail(@),
                          ![a].up = Append(@, MsgStr("FINALIZE"))]
    /\ UNCHANGED <<cfg, tree, build, params, pc, loc, ep, up, down, spawned>>

\* wait for FINALIZE: read cmd, disconnect the channel; chs is freed after
\* the loop
PmiFinalize(r) ==
    /\ Stmt(r) = "pmi_finalize"
    /\ LET ch == loc[r].chs[loc[r].i + 1]
           last == loc[r].i + 1 = cfg.PPN
       IN /\ ach[ch].up # <<>> \/ PeerClosed(ch)
          /\ ach' = [ach EXCEPT ![ch].up = IF @ = <<>> THEN @ ELSE Tail(@),
                                ![ch].open = FALSE]
          /\ loc' = [loc EXCEPT ![r].i = IF last THEN 0 ELSE @ + 1,
                                ![r].chs = IF last THEN <<>> ELSE @]
    /\ NextApp(r)

\* mutant: the BARRIER goes back to the processes before the allgather
PmiProgBarrierFirst ==
    <<"signal_from_root", "launch_apps", "signal_to_root",
      "signal_from_root",
      "signal_from_root", "pmi_accept", "signal_to_root",
      "signal_from_root", "pmi_init", "signal_to_root",
      "signal_from_root", "pmi_read", "signal_to_root",
      "signal_from_root", "pmi_barrier", "gather_strmap", "bcast_strmap",
      "signal_to_root",
      "signal_from_root", "pmi_get1", "pmi_get2", "signal_to_root",
      "signal_from_root", "pmi_finalize", "signal_to_root",
      "signal_to_root">>

\* the launch of the application processes in process_group_start, then
\* pmi_exchange
PmiProg ==
    <<"signal_from_root", "launch_apps", "signal_to_root",
      "signal_from_root",
      "signal_from_root", "pmi_accept", "signal_to_root",
      "signal_from_root", "pmi_init", "signal_to_root",
      "signal_from_root", "pmi_read", "signal_to_root",
      "signal_from_root", "gather_strmap", "bcast_strmap", "signal_to_root",
      "signal_from_root", "pmi_barrier", "pmi_get1", "pmi_get2", "signal_to_root",
      "signal_from_root", "pmi_finalize", "signal_to_root",
      "signal_to_root">>

InitApps ==
    /\ tree = [r \in Launchers |-> UnfurledTree(r)]
    /\ build = NoBuild
    /\ params = [r \in Launchers |-> session_init_params(cfg.N, cfg.DEG)]
    /\ pc = [r \in Launchers |-> 1]
    /\ loc = [r \in Launchers |-> UnfurledSession(r)]
    /\ ep = [r \in Launchers |-> <<>>]
    /\ up = [c \in 1..(cfg.N - 1) |-> <<>>]
    /\ down = [c \in 1..(cfg.N - 1) |-> <<>>]
    /\ spawned = <<>>
    /\ app = [a \in Apps |-> app_new]
    /\ ach = [a \in Apps |-> ach_new]

InitPmi ==
    /\ \E N \in 1..MaxPmiN, DEG \in 1..MaxPmiDeg, PPN \in 1..MaxPPN :
          cfg = [N |-> N, DEG |-> DEG, PPN |-> PPN, prog |-> PmiProg]
    /\ InitApps

NextPmi ==
    \/ \E r \in Launchers :
        \/ SignalFromRoot(r)
        \/ SignalToRootRead(r)
        \/ SignalToRootWrite(r)
        \/ LaunchApps(r)
        \/ PmiAccept(r)
        \/ PmiInit(r)
        \/ PmiRead(r)
        \/ GatherRead(r)
        \/ GatherWrite(r)
        \/ BcastStrmap(r)
        \/ PmiBarrier(r)
        \/ PmiGet(r)
        \/ PmiFinalize(r)
    \/ \E a \in Apps :
        \/ AppConnect(a)
        \/ AppInit(a)
        \/ AppBarrier(a)
        \/ AppGet1(a)
        \/ AppGet2(a)

SpecPmi == InitPmi /\ [][NextPmi]_vars

\* -------------------------------------------------------------------------
\* Properties of the PMI exchange
\* -------------------------------------------------------------------------
\* the launcher of process a has been sent, or has read, a BARRIER or a value
AppReleased(a) ==
    \/ app[a].pc \in {"get1", "get2", "done"}
    \/ \E n \in DOMAIN ach[a].down : ach[a].down[n].kind = "str"

\* process a has sent its BARRIER token and what it commits
AppCommitted(a) == app[a].pc \in {"committed", "get1", "get2", "done"}

\* C7: no launcher sends BARRIER or the value of a GET to a process before
\* its own allgather_strmap has returned, and the allgather returns on a
\* launcher only after every process of every launcher has sent its BARRIER
\* token and its committed strmap.
C7_PmiBarrier ==
    /\ \A a \in Apps : AppReleased(a) => Past(a[1], "bcast_strmap")
    /\ \A r \in Launchers :
           Past(r, "bcast_strmap") => \A a \in Apps : AppCommitted(a)

\* a process of a leaf is past the barrier in a job of several launchers with
\* several processes each
C7_Witness ==
    /\ cfg.N = MaxPmiN /\ cfg.PPN = MaxPPN
    /\ \E a \in Apps : a[1] = cfg.N - 1 /\ app[a].pc = "get1"

\* C8: a GET, after the barrier, of a key that one process of the job has
\* committed is answered with the value that process committed, whatever the
\* launchers of the two processes.
C8_PmiGet ==
    \A a \in Apps :
        /\ app[a].pc \in {"get2", "done"} => app[a].val1 = AppVal(AppPeer(a))
        /\ app[a].pc = "done" => app[a].val2 = AppVal(a)

\* every process has both values, in a job where the key of the first GET
\* comes from another launcher
C8_Witness ==
    /\ cfg.N = MaxPmiN /\ cfg.DEG = MaxPmiDeg /\ cfg.PPN = MaxPPN
    /\ \A a \in Apps : app[a].pc = "done" /\ AppPeer(a)[1] # a[1]

\* the init strmap sent to process a: read by it, or still on its channel
InitOf(a) ==
    IF app[a].init # strmap_new THEN app[a].init
    ELSE IF app[a].pc = "connected" /\ ach[a].down # <<>>
         THEN strmap_unpack(Head(ach[a].down).data, strmap_new)
         ELSE strmap_new

HasInit == {a \in Apps : InitOf(a) # strmap_new}

\* C9: the init strmap for the i-th accepted process of launcher rank has
\* RANK = rank*PPN + i, RANKS = N*PPN and JOBID = 0; the RANKs handed out in
\* the job are pairwise distinct and, once all are handed out, are 0..N*PPN-1.
C9_PmiRanks ==
    /\ \A r \in Launchers : \A i \in 1..Len(loc[r].chs) :
           LET a == loc[r].chs[i]
           IN a \in HasInit =>
                 InitOf(a) = << <<"RANK", itoa(r * cfg.PPN + (i - 1))>>,
                                <<"RANKS", itoa(cfg.N * cfg.PPN)>>,
                                <<"JOBID", "0">> >>
    /\ \A a, b \in HasInit :
           a # b => strmap_get(InitOf(a), "RANK") # strmap_get(InitOf(b), "RANK")
    /\ HasInit = Apps =>
           {atoi(strmap_get(InitOf(a), "RANK")) : a \in Apps}
               = 0..(cfg.N * cfg.PPN - 1)

\* every process has its init strmap, and a launcher accepted its processes
\* in another order than it forked them
C9_Witness ==
    /\ cfg.N = MaxPmiN /\ cfg.PPN = MaxPPN
    /\ HasInit = Apps
    /\ \E r \in Launchers :
           /\ Len(loc[r].chs) = cfg.PPN
           /\ loc[r].chs[1] = <<r, 1>>

\* -------------------------------------------------------------------------
\* ring_scan and ring_exchange
\* -------------------------------------------------------------------------
AppAddr(a) == "addr" \o itoa(a[1]) \o "_" \o itoa(a[2])

\* the process connects to its launcher and sends its address
AppRingConnect(a) ==
    /\ app[a].pc = "exec"
    /\ ep' = [ep EXCEPT ![a[1]] = Append(@, a)]
    /\ ach' = [ach EXCEPT
           ![a].open = TRUE,
           ![a].kind = "ring",
           ![a].up = Append(@, MsgStrmap(strmap_set(strmap_new, "ADDR", AppAddr(a))))]
    /\ app' = [app EXCEPT ![a].pc = "ring_sent", ![a].conn = "ring"]
    /\ UNCHANGED <<cfg, tree, build, params, pc, loc, up, down, spawned>>

\* a process that has finalized PMI connects to its launcher for the ring
AppRingReconnect(a) ==
    /\ app[a].pc = "pmi_done"
    /\ ep' = [ep EXCEPT ![a[1]] = Append(@, a)]
    /\ app' = [app EXCEPT ![a].pc = "ring_connected", ![a].conn = "ring"]
    /\ UNCHANGED <<cfg, tree, build, params, pc, loc, up, down, spawned, ach>>

\* and sends its address on the new channel; ach[a] stands for the channel
\* of the ring once the launcher is done with that of PMI
AppRingSend(a) ==
    /\ app[a].pc = "ring_connected"
    /\ ~ach[a].open /\ ach[a].up = <<>> /\ ach[a].down = <<>>
    /\ ach' = [ach EXCEPT
           ![a].open = TRUE,
           ![a].kind = "ring",
           ![a].up = <<MsgStrmap(strmap_set(strmap_new, "ADDR", AppAddr(a)))>>]
    /\ app' = [app EXCEPT ![a].pc = "ring_sent"]
    /\ UNCHANGED <<cfg, tree, build, params, pc, loc, ep, up, down, spawned>>

\* the process reads its RANK, RANKS, LEFT and RIGHT
AppRingRead(a) ==
    /\ app[a].pc = "ring_sent"
    /\ ach[a].down # <<>>
    /\ app' = [app EXCEPT ![a].init = strmap_unpack(Head(ach[a].down).data, strmap_new),
                          ![a].pc = "done"]
    /\ ach' = [ach EXCEPT ![a].down = Tail(@)]
    /\ UNCHANGED <<cfg, tree, build, params, pc, loc, ep, up, down, spawned>>

RingAccept(r) == Stmt(r) = "ring_accept" /\ AppAccept(r)

\* wait for address from each child
RingRead(r) ==
    /\ Stmt(r) = "ring_read"
    /\ LET ch == loc[r].chs[loc[r].i + 1]
           last == loc[r].i + 1 = cfg.PPN
       IN /\ ach[ch].up # <<>>
          /\ loc' = [loc EXCEPT
                 ![r].maps = Append(@, strmap_unpack(Head(ach[ch].up).data, strmap_new)),
                 ![r].i = IF last THEN 0 ELSE @ + 1]
          /\ ach' = [ach EXCEPT ![ch].up = Tail(@)]
    /\ NextApp(r)

\* mutant: the address of the first process stands for both ends
ring_input_first(maps) ==
    IF Len(maps) > 0
    THEN strmap_set(strmap_set(strmap_new,
             "LEFT", strmap_get(maps[1], "ADDR")),
             "RIGHT", strmap_get(maps[1], "ADDR"))
    ELSE strmap_new

\* the input of ring_scan: the addresses of the first and the last process
ring_input(maps) ==
    IF Len(maps) > 0
    THEN strmap_set(strmap_set(strmap_new,
             "LEFT", strmap_get(maps[1], "ADDR")),
             "RIGHT", strmap_get(maps[Len(maps)], "ADDR"))
    ELSE strmap_new

RingInput(r) ==
    /\ Stmt(r) = "ring_input"
    /\ loc' = [loc EXCEPT ![r].input = ring_input(loc[r].maps),
                          ![r].output = strmap_new]
    /\ pc' = [pc EXCEPT ![r] = NextStmt(r, tree[r])]
    /\ UNCHANGED <<cfg, tree, build, params, ep, up, down, spawned, app, ach>>

\* ring_scan: gather input from children
RingScanRead(r) ==
    /\ Stmt(r) = "ring_scan_read"
    /\ LET ch == tree[r].child_chs[loc[r].i + 1]
           last == loc[r].i + 1 = tree[r].children
       IN /\ up[ch] # <<>>
          /\ loc' = [loc EXCEPT
                 ![r].scan_maps = Append(@, strmap_unpack(Head(up[ch]).data, strmap_new)),
                 ![r].i = IF last THEN 0 ELSE @ + 1]
          /\ up' = [up EXCEPT ![ch] = Tail(@)]
          /\ pc' = [pc EXCEPT ![r] = IF last THEN NextStmt(r, tree[r]) ELSE @]
    /\ UNCHANGED <<cfg, tree, build, params, ep, down, spawned, app, ach>>

\* the LEFT of input, or else of the first child that has one
ring_leftmost(input, maps) ==
    IF strmap_get(input, "LEFT") # NULL THEN strmap_get(input, "LEFT")
    ELSE IF \E i \in 1..Len(maps) : strmap_get(maps[i], "LEFT") # NULL
         THEN LET i == CHOOSE i \in 1..Len(maps) :
                         /\ strmap_get(maps[i], "LEFT") # NULL
                         /\ \A j \in 1..(i - 1) : strmap_get(maps[j], "LEFT") = NULL
              IN strmap_get(maps[i], "LEFT")
         ELSE NULL

\* the RIGHT of the last child that has one, or else of input
ring_rightmost(input, maps) ==
    IF \E i \in 1..Len(maps) : strmap_get(maps[i], "RIGHT") # NULL
    THEN LET i == CHOOSE i \in 1..Len(maps) :
                    /\ strmap_get(maps[i], "RIGHT") # NULL
                    /\ \A j \in (i + 1)..Len(maps) : strmap_get(maps[j], "RIGHT") = NULL
         IN strmap_get(maps[i], "RIGHT")
    ELSE strmap_get(input, "RIGHT")

\* the strmap of the ends left and right: empty unless both are there
ring_ends(left, right) ==
    IF left # NULL /\ right # NULL
    THEN strmap_set(strmap_set(strmap_new, "LEFT", left), "RIGHT", right)
    ELSE strmap_new

\* ring_scan: send the ends of the subtree to the parent; the root wraps them
RingScanUp(r) ==
    /\ Stmt(r) = "ring_scan_up"
    /\ LET leftmost == ring_leftmost(loc[r].input, loc[r].scan_maps)
           rightmost == ring_rightmost(loc[r].input, loc[r].scan_maps)
           p == tree[r].parent_ch
       IN IF p # SPAWN_NET_CHANNEL_NULL
          THEN /\ up' = [up EXCEPT ![p] = Append(@, MsgStrmap(ring_ends(leftmost, rightmost)))]
               /\ UNCHANGED loc
          ELSE /\ loc' = [loc EXCEPT ![r].recv = ring_ends(rightmost, leftmost)]
               /\ UNCHANGED up
    /\ pc' = [pc EXCEPT ![r] = NextStmt(r, tree[r])]
    /\ UNCHANGED <<cfg, tree, build, params, ep, down, spawned, app, ach>>

\* the strmap ring_scan sends to child i (from 0) of children
ring_child(input, maps, recv, i, children) ==
    LET left == IF i = 0 THEN strmap_get(input, "RIGHT")
                ELSE strmap_get(maps[i], "RIGHT")
        right == IF i < children - 1 THEN strmap_get(maps[i + 2], "LEFT")
                 ELSE strmap_get(recv, "RIGHT")
    IN strmap_set(strmap_set(strmap_new, "LEFT", left), "RIGHT", right)

\* mutant: the output RIGHT is always the RIGHT the parent sent
ring_output_recv(output, maps, recv, children) ==
    strmap_set(strmap_set(output, "LEFT", strmap_get(recv, "LEFT")),
               "RIGHT", strmap_get(recv, "RIGHT"))

\* the output of ring_scan: LEFT from the parent, RIGHT the LEFT of the first
\* child if there is one
ring_output(output, maps, recv, children) ==
    LET left == strmap_get(recv, "LEFT")
        right == IF children > 0 THEN strmap_get(maps[1], "LEFT")
                 ELSE strmap_get(recv, "RIGHT")
    IN strmap_set(strmap_set(output, "LEFT", left), "RIGHT", right)

\* ring_scan: receive map from parent, send output to each child, set output
RingScanDown(r) ==
    /\ Stmt(r) = "ring_scan_down"
    /\ LET t == tree[r]
           p == t.parent_ch
           recv == IF p # SPAWN_NET_CHANNEL_NULL /\ down[p] # <<>>
                   THEN strmap_unpack(Head(down[p]).data, strmap_new)
                   ELSE loc[r].recv
           slot(c) == CHOOSE i \in 1..t.children : t.child_chs[i] = c
       IN /\ p # SPAWN_NET_CHANNEL_NULL => down[p] # <<>>
          /\ down' = [c \in DOMAIN down |->
                 IF c = p THEN Tail(down[c])
                 ELSE IF \E i \in 1..t.children : t.child_chs[i] = c
                 THEN Append(down[c],
                          MsgStrmap(ring_child(loc[r].input, loc[r].scan_maps, recv,
                                               slot(c) - 1, t.children)))
                 ELSE down[c]]
          /\ loc' = [loc EXCEPT
                 ![r].output = ring_output(@, loc[r].scan_maps, recv, t.children),
                 ![r].recv = strmap_new,
                 ![r].scan_maps = <<>>,
                 ![r].input = strmap_new]
    /\ pc' = [pc EXCEPT ![r] = NextStmt(r, tree[r])]
    /\ UNCHANGED <<cfg, tree, build, params, ep, up, spawned, app, ach>>

\* the strmap ring_exchange sends to process i (from 0) of children
ring_init(t, children, i, maps, output) ==
    LET child_rank == t.rank * children + i
        ranks == t.ranks * children
        left == IF i = 0 THEN strmap_get(output, "LEFT")
                ELSE strmap_get(maps[i], "ADDR")
        right == IF i < children - 1 THEN strmap_get(maps[i + 2], "ADDR")
                 ELSE strmap_get(output, "RIGHT")
    IN strmap_set(strmap_set(strmap_set(strmap_set(strmap_new,
           "RANK", itoa(child_rank)),
           "RANKS", itoa(ranks)),
           "LEFT", left),
           "RIGHT", right)

\* compute left and right addresses for each of our children
RingWrite(r) ==
    /\ Stmt(r) = "ring_write"
    /\ LET msgs == [i \in 1..Len(loc[r].chs) |->
                       <<MsgStrmap(ring_init(tree[r], cfg.PPN, i - 1,
                                             loc[r].maps, loc[r].output))>>]
       IN WriteApps(r, msgs)
    /\ loc' = [loc EXCEPT ![r].output = strmap_new]
    /\ pc' = [pc EXCEPT ![r] = NextStmt(r, tree[r])]
    /\ UNCHANGED <<cfg, tree, build, params, ep, up, down, spawned, app>>

\* disconnect from each child
RingDisconnect(r) ==
    /\ Stmt(r) = "ring_disconnect"
    /\ ach' = [a \in DOMAIN ach |->
                 IF \E i \in 1..Len(loc[r].chs) : loc[r].chs[i] = a
                 THEN [ach[a] EXCEPT !.open = FALSE] ELSE ach[a]]
    /\ pc' = [pc EXCEPT ![r] = NextStmt(r, tree[r])]
    /\ UNCHANGED <<cfg, tree, build, params, loc, ep, up, down, spawned, app>>

\* the launch of the application processes in process_group_start, then
\* ring_exchange
RingProg ==
    <<"signal_from_root", "launch_apps", "signal_to_root",
      "signal_from_root",
      "signal_from_root", "ring_accept", "signal_to_root",
      "signal_from_root", "ring_read", "signal_to_root",
      "signal_from_root", "ring_input", "ring_scan_read", "ring_scan_up",
      "ring_scan_down", "signal_to_root",
      "signal_from_root", "ring_write", "signal_to_root",
      "signal_from_root", "ring_disconnect", "signal_to_root",
      "signal_to_root">>

InitRing ==
    /\ \E N \in 1..MaxN, DEG \in 1..MaxDeg, PPN \in 1..MaxPPN :
          /\ N * PPN <= MaxRingProcs
          /\ cfg = [N |-> N, DEG |-> DEG, PPN |-> PPN, prog |-> RingProg]
    /\ InitApps

NextRing ==
    \/ \E r \in Launchers :
        \/ SignalFromRoot(r)
        \/ SignalToRootRead(r)
        \/ SignalToRootWrite(r)
        \/ LaunchApps(r)
        \/ RingAccept(r)
        \/ RingRead(r)
        \/ RingInput(r)
        \/ RingScanRead(r)
        \/ RingScanUp(r)
        \/ RingScanDown(r)
        \/ RingWrite(r)
        \/ RingDisconnect(r)
    \/ \E a \in Apps :
        \/ AppRingConnect(a)
        \/ AppRingRead(a)

SpecRing == InitRing /\ [][NextRing]_vars

\* -------------------------------------------------------------------------
\* Properties of the ring exchange
\* -------------------------------------------------------------------------
AllAppsDone == \A a \in Apps : app[a].pc = "done"

AppRank(a) == atoi(strmap_get(app[a].init, "RANK"))

\* the process that was given RANK n
AppOfRank(n) == CHOOSE a \in Apps : AppRank(a) = n

\* C10: for any number of launchers, any fan-out and PPN >= 1, the process
\* given RANK r receives LEFT = the ADDR of the process given RANK r-1 and
\* RIGHT = the ADDR of the process given RANK r+1, modulo N*PPN.
C10_RingByRank ==
    AllAppsDone =>
        \A a \in Apps :
            LET ranks == cfg.N * cfg.PPN
            IN /\ strmap_get(app[a].init, "LEFT")
                      = AppAddr(AppOfRank((AppRank(a) + ranks - 1) % ranks))
               /\ strmap_get(app[a].init, "RIGHT")
                      = AppAddr(AppOfRank((AppRank(a) + 1) % ranks))

\* the processes in the order of the ring that ring_scan closes: the
\* launchers in pre-order, the processes of a launcher as it accepted them
RECURSIVE RingOrder(_)
RingOrder(rs) ==
    IF rs = <<>> THEN <<>> ELSE loc[rs[1]].chs \o RingOrder(Tail(rs))

\* what holds of the code: the neighbours are those of the pre-order ring, and
\* the RANKs are rank*PPN + i
RingByPreOrder ==
    AllAppsDone =>
        LET ring == RingOrder(PreOrder(0))
            n == Len(ring)
        IN \A p \in 1..n :
              /\ strmap_get(app[ring[p]].init, "LEFT")
                     = AppAddr(ring[((p + n - 2) % n) + 1])
              /\ strmap_get(app[ring[p]].init, "RIGHT") = AppAddr(ring[(p % n) + 1])
              /\ strmap_get(app[ring[p]].init, "RANKS") = itoa(n)

\* the process whose ADDR is addr
AppOfAddr(addr) == CHOOSE a \in Apps : AppAddr(a) = addr

\* the process k steps to the right of a
RECURSIVE FollowRight(_, _)
FollowRight(a, k) ==
    IF k = 0 THEN a
    ELSE FollowRight(AppOfAddr(strmap_get(app[a].init, "RIGHT")), k - 1)

\* C38: with PPN >= 1 the LEFT and RIGHT that ring_exchange delivers form one
\* cycle: RIGHT(p) = ADDR(q) exactly when LEFT(q) = ADDR(p), and following
\* RIGHT from any process visits all N*PPN processes once and returns
C38_SingleCycle ==
    AllAppsDone =>
        LET n == cfg.N * cfg.PPN
        IN /\ \A p, q \in Apps :
                 strmap_get(app[p].init, "RIGHT") = AppAddr(q)
                     <=> strmap_get(app[q].init, "LEFT") = AppAddr(p)
           /\ \A p \in Apps :
                 /\ \E q \in Apps : strmap_get(app[p].init, "RIGHT") = AppAddr(q)
                 /\ {FollowRight(p, k) : k \in 0..(n - 1)} = Apps
                 /\ FollowRight(p, n) = p

\* a ring over a tree with a launcher that has two children and over
\* launchers with several processes is closed
C38_Witness ==
    /\ AllAppsDone
    /\ cfg.N = 3 /\ cfg.DEG = 2 /\ cfg.PPN = 2
    /\ FollowRight(<<0, 1>>, 3) = <<2, 1>>

\* -------------------------------------------------------------------------
\* ring_scan on its own, over inputs of which some are empty
\* -------------------------------------------------------------------------
ScanProg == <<"ring_scan_read", "ring_scan_up", "ring_scan_down">>

\* the input of launcher r: its LEFT and RIGHT, or nothing
ScanInput(r, full) ==
    IF full
    THEN strmap_set(strmap_set(strmap_new, "LEFT", "l" \o itoa(r)),
                    "RIGHT", "r" \o itoa(r))
    ELSE strmap_new

InitScan ==
    /\ \E N \in 1..MaxN, DEG \in 1..MaxDeg :
          \E inp \in [0..(N - 1) -> BOOLEAN] :
              cfg = [N |-> N, DEG |-> DEG, PPN |-> 0, prog |-> ScanProg,
                     inp |-> inp]
    /\ tree = [r \in Launchers |-> UnfurledTree(r)]
    /\ build = NoBuild
    /\ params = [r \in Launchers |-> session_init_params(cfg.N, cfg.DEG)]
    /\ pc = [r \in Launchers |-> SkipEmpty(1, UnfurledTree(r).children, 0)]
    /\ loc = [r \in Launchers |->
                 [UnfurledSession(r) EXCEPT !.input = ScanInput(r, cfg.inp[r])]]
    /\ ep = [r \in Launchers |-> <<>>]
    /\ up = [c \in 1..(cfg.N - 1) |-> <<>>]
    /\ down = [c \in 1..(cfg.N - 1) |-> <<>>]
    /\ spawned = <<>>
    /\ app = <<>>
    /\ ach = <<>>

\* the values ring_scan gives to strmap_set once it has recv: LEFT and RIGHT
\* for each child, then LEFT and RIGHT of output
ring_scan_sets(input, maps, recv, children) ==
    {strmap_get(ring_child(input, maps, recv, i, children), k) :
         i \in 0..(children - 1), k \in {"LEFT", "RIGHT"}}
    \cup {strmap_get(ring_output(strmap_new, maps, recv, children), k) :
             k \in {"LEFT", "RIGHT"}}

\* strmap_set of a value that is NULL: the set may store it as it is (a key
\* without a value, which RingScanDown carries on), or kill the process
RingScanKilled(r) ==
    /\ Stmt(r) = "ring_scan_down"
    /\ LET p == tree[r].parent_ch
           recv == IF p # SPAWN_NET_CHANNEL_NULL /\ down[p] # <<>>
                   THEN strmap_unpack(Head(down[p]).data, strmap_new)
                   ELSE loc[r].recv
       IN /\ p # SPAWN_NET_CHANNEL_NULL => down[p] # <<>>
          /\ NULL \in ring_scan_sets(loc[r].input, loc[r].scan_maps, recv,
                                     tree[r].children)
    /\ pc' = [pc EXCEPT ![r] = -2]
    /\ UNCHANGED <<cfg, tree, build, params, loc, ep, up, down, spawned, app, ach>>

NextScan ==
    \E r \in Launchers :
        \/ RingScanRead(r)
        \/ RingScanUp(r)
        \/ RingScanDown(r)
        \/ RingScanKilled(r)

SpecScan == InitScan /\ [][NextScan]_vars

\* the launchers in the order of the ring
ScanRing == PreOrder(0)

\* the nearest launcher with an input, d >= 1 steps from position p of the
\* ring in direction dir (-1: preceding, 1: following), cyclically
ScanNearest(p, dir) ==
    LET n == Len(ScanRing)
        at(d) == ScanRing[((p - 1 + dir * d + n * n) % n) + 1]
        d == CHOOSE d \in 1..n :
                 /\ cfg.inp[at(d)]
                 /\ \A e \in 1..(d - 1) : ~cfg.inp[at(e)]
    IN at(d)

\* C11: after ring_scan over inputs of which at least one is not empty, the
\* output LEFT of every launcher is the RIGHT input of the nearest preceding
\* launcher of the ring that has an input, its output RIGHT the LEFT input of
\* the nearest following one; a launcher without input is skipped, and no
\* missing value is handed on (no launcher is lost on one).
C11_RingClosure ==
    (\E r \in Launchers : cfg.inp[r]) =>
        /\ \A r \in Launchers : pc[r] # -2
        /\ AllReturned =>
              \A p \in 1..Len(ScanRing) :
                  LET r == ScanRing[p]
                  IN /\ strmap_get(loc[r].output, "LEFT")
                            = strmap_get(ScanInput(ScanNearest(p, -1), TRUE), "RIGHT")
                     /\ strmap_get(loc[r].output, "RIGHT")
                            = strmap_get(ScanInput(ScanNearest(p, 1), TRUE), "LEFT")

\* what holds of the code: the ring is closed when every launcher has an input
ScanClosedWhenFull ==
    (\A r \in Launchers : cfg.inp[r]) =>
        /\ \A r \in Launchers : pc[r] # -2
        /\ AllReturned =>
              \A p \in 1..Len(ScanRing) :
                  LET r == ScanRing[p]
                  IN /\ strmap_get(loc[r].output, "LEFT")
                            = strmap_get(ScanInput(ScanNearest(p, -1), TRUE), "RIGHT")
                     /\ strmap_get(loc[r].output, "RIGHT")
                            = strmap_get(ScanInput(ScanNearest(p, 1), TRUE), "LEFT")

\* C33: when every launcher has a non-empty input, ring_scan gives each
\* launcher as LEFT the RIGHT input of the launcher before it in pre-order
\* (the launcher, then the subtrees of its children in list order) and as
\* RIGHT the LEFT input of the launcher after it, cyclically: the LEFT of the
\* root is the RIGHT input of the last launcher of the order
C33_ScanPreOrder ==
    ((\A r \in Launchers : cfg.inp[r]) /\ AllReturned) =>
        LET n == Len(ScanRing)
        IN /\ n = cfg.N
           /\ ScanRing[1] = 0
           /\ strmap_get(loc[0].output, "LEFT") = "r" \o itoa(ScanRing[n])
           /\ \A p \in 1..n :
                 /\ strmap_get(loc[ScanRing[p]].output, "LEFT")
                       = "r" \o itoa(ScanRing[IF p = 1 THEN n ELSE p - 1])
                 /\ strmap_get(loc[ScanRing[p]].output, "RIGHT")
                       = "l" \o itoa(ScanRing[IF p = n THEN 1 ELSE p + 1])

\* ring_scan has returned on the four launchers of the tree 0 -> {1, 2},
\* 1 -> {3}, whose pre-order 0, 1, 3, 2 is not the order of the ranks
C33_Witness ==
    /\ cfg.N = 4 /\ cfg.DEG = 2
    /\ \A r \in Launchers : cfg.inp[r]
    /\ AllReturned
    /\ ScanRing = <<0, 1, 3, 2>>
    /\ strmap_get(loc[3].output, "RIGHT") = "l2"

\* -------------------------------------------------------------------------
\* The signal waves of session_start: signal_from_root, then rounds of
\* signal_to_root and signal_from_root
\* -------------------------------------------------------------------------
RECURSIVE WavesRounds(_)
WavesRounds(n) ==
    IF n = 0 THEN <<>>
    ELSE <<"signal_to_root", "signal_from_root">> \o WavesRounds(n - 1)

WavesProg == <<"signal_from_root">> \o WavesRounds(MaxWaves)

InitWaves ==
    /\ \E N \in 1..MaxN, DEG \in 1..MaxDeg :
          cfg = [N |-> N, DEG |-> DEG, PPN |-> 0, prog |-> WavesProg]
    /\ tree = [r \in Launchers |-> UnfurledTree(r)]
    /\ build = NoBuild
    /\ params = [r \in Launchers |-> session_init_params(cfg.N, cfg.DEG)]
    /\ pc = [r \in Launchers |-> 1]
    /\ loc = [r \in Launchers |-> UnfurledSession(r)]
    /\ ep = [r \in Launchers |-> <<>>]
    /\ up = [c \in 1..(cfg.N - 1) |-> <<>>]
    /\ down = [c \in 1..(cfg.N - 1) |-> <<>>]
    /\ spawned = <<>>
    /\ app = <<>>
    /\ ach = <<>>

NextWaves ==
    \E r \in Launchers :
        \/ SignalFromRoot(r)
        \/ SignalToRootRead(r)
        \/ SignalToRootWrite(r)

SpecWaves == InitWaves /\ [][NextWaves]_vars

\* the statements of the run that are calls of stmt: one for each wave
WavesOf(stmt) == {p \in 1..Len(cfg.prog) : cfg.prog[p] = stmt}

TreeDepth == cfg.N

\* launcher r writes the signal of signal_to_root to its parent in this step
SignalsParent(r) ==
    /\ tree[r].parent_ch # SPAWN_NET_CHANNEL_NULL
    /\ Stmt(r) = "signal_to_root"
    /\ Len(up'[tree[r].parent_ch]) > Len(up[tree[r].parent_ch])

\* C12: in every wave, when signal_to_root has returned at the root, every
\* launcher of the tree has called signal_to_root of that wave (and has left
\* it); a launcher writes the byte to its parent only after it has read one
\* byte from every child.
C12_SignalUp ==
    /\ [](\A p \in WavesOf("signal_to_root") :
             pc[0] > p => \A r \in Launchers : pc[r] > p)
    /\ [][\A r \in Launchers :
             SignalsParent(r) => loc[r].i = tree[r].children]_vars

\* the root has left the signal_to_root of the second wave of a tree of depth 2
C12_Witness ==
    /\ cfg.N = MaxN /\ cfg.DEG = 2
    /\ \E p \in WavesOf("signal_to_root") :
           /\ pc[0] > p
           /\ \E q \in WavesOf("signal_to_root") : q < p

Bytes == {0, 1}

FileContents == UNION {[1..n -> Bytes] : n \in 0..MaxFile}

\* what can go wrong with the files: nothing, the source file of the root is
\* not there, the scratch file of a launcher cannot be opened, or the write
\* to it is short
IoModes == {"ok", "nosrc", "noopen", "short"}

MsgBcast(data) == [kind |-> "bcast", data |-> data]

BcastStmts == {"bcast_size", "bcast_buf"}

\* mutant: the bytes read from the parent are not stored
bcast_read_keep(buf, data) == buf

\* the buffer after spawn_net_read(p, buf, size) of the bytes data
bcast_read(buf, data) == data

\* the buffer of the running bcast of launcher r
bcast_buf(r) == IF Stmt(r) = "bcast_size" THEN <<loc[r].bufsize>> ELSE loc[r].buf

\* the buffer of the root before a bcast of bcast_file: the size from stat()
\* or the bytes from read(); when the file is not there neither call fills
\* in anything, and the buffer has whatever it had
RootBuffers ==
    IF Stmt(0) = "bcast_size"
    THEN IF cfg.io = "nosrc" THEN {<<n>> : n \in 0..MaxFile} ELSE {<<Len(cfg.file)>>}
    ELSE IF cfg.io = "nosrc" THEN [1..loc[0].bufsize -> Bytes] ELSE {cfg.file}

\* bcast: read bytes from parent, if we have one; in bcast_file the root has
\* filled the buffer before
BcastRead(r) ==
    /\ Stmt(r) \in BcastStmts
    /\ ~loc[r].got
    /\ LET p == tree[r].parent_ch
           leaf == tree[r].children = 0
       IN /\ p # SPAWN_NET_CHANNEL_NULL => down[p] # <<>>
          /\ \E buf \in IF p # SPAWN_NET_CHANNEL_NULL
                        THEN {bcast_read(bcast_buf(r), Head(down[p]).data)}
                        ELSE RootBuffers :
                loc' = [loc EXCEPT
                    ![r].bufsize = IF Stmt(r) = "bcast_size" THEN buf[1] ELSE @,
                    ![r].buf = IF Stmt(r) = "bcast_buf" THEN buf ELSE @,
                    ![r].got = ~leaf]
          /\ down' = IF p # SPAWN_NET_CHANNEL_NULL
                     THEN [down EXCEPT ![p] = Tail(@)] ELSE down
          /\ pc' = [pc EXCEPT ![r] = IF leaf THEN NextStmt(r, tree[r]) ELSE @]
    /\ UNCHANGED <<cfg, tree, build, params, ep, up, spawned, app, ach>>

\* bcast: send bytes to child i
BcastWrite(r) ==
    /\ Stmt(r) \in BcastStmts
    /\ loc[r].got
    /\ LET ch == tree[r].child_chs[loc[r].i + 1]
           last == loc[r].i + 1 = tree[r].children
       IN /\ down' = [down EXCEPT ![ch] = Append(@, MsgBcast(bcast_buf(r)))]
          /\ loc' = [loc EXCEPT ![r].i = IF last THEN 0 ELSE @ + 1,
                                ![r].got = ~last]
          /\ pc' = [pc EXCEPT ![r] = IF last THEN NextStmt(r, tree[r]) ELSE @]
    /\ UNCHANGED <<cfg, tree, build, params, ep, up, spawned, app, ach>>

\* basename() of a path, given as its components
basename(path) == path[Len(path)]

\* mutant: the last byte is not written
ramdisk_bytes_short(buf, size) == SubSeq(buf, 1, size - 1)

\* the bytes write(dstfd, buf, size) puts into the file
ramdisk_bytes(buf, size) == SubSeq(buf, 1, size)

\* write_to_ramdisk: the file /tmp/<basename> and the name returned; fail is
\* "noopen" when open() fails, "short" when write() writes less than size
write_to_ramdisk(src, buf, size, scratch, fail) ==
    LET dst == "/tmp/" \o basename(src)
    IN CASE fail = "noopen" -> [scratch |-> scratch, newfile |-> NULL]
         [] fail = "short" /\ size > 0 ->
                [scratch |-> [exists |-> TRUE, bytes |-> SubSeq(buf, 1, size - 1)],
                 newfile |-> NULL]
         [] OTHER ->
                [scratch |-> [exists |-> TRUE, bytes |-> ramdisk_bytes(buf, size)],
                 newfile |-> dst]

\* bcast_file: write file to ramdisk, free buffer, return the name
WriteToRamdisk(r) ==
    /\ Stmt(r) = "write_to_ramdisk"
    /\ LET fail == IF cfg.at = r THEN cfg.io ELSE "ok"
           w == write_to_ramdisk(cfg.path, loc[r].buf, loc[r].bufsize,
                                 loc[r].scratch, fail)
       IN loc' = [loc EXCEPT ![r].scratch = w.scratch, ![r].newfile = w.newfile,
                             ![r].buf = <<>>]
    /\ pc' = [pc EXCEPT ![r] = NextStmt(r, tree[r])]
    /\ UNCHANGED <<cfg, tree, build, params, ep, up, down, spawned, app, ach>>

\* the application parameters the root fills in
app_params(exe, ppn, bin_bcast) ==
    strmap_set(strmap_set(strmap_set(strmap_set(strmap_set(strmap_set(strmap_set(
    strmap_set(strmap_new,
        "NAME", "GROUP_0"),
        "EXE", exe),
        "CWD", "/cwd"),
        "PPN", itoa(ppn)),
        "PMI", "0"),
        "RING", "0"),
        "FIFO", "0"),
        "BIN_BCAST", itoa(bin_bcast))

\* session_start from the broadcast of the application parameters, and
\* process_group_start with BIN_BCAST=1 up to the launch of the processes
BcastProg ==
    <<"bcast_strmap", "signal_to_root",
      "signal_from_root", "signal_to_root",
      "signal_from_root", "bcast_size", "bcast_buf", "write_to_ramdisk",
      "signal_to_root",
      "signal_from_root", "launch_apps", "signal_to_root">>

InitBcast ==
    /\ \E N \in 1..MaxN, DEG \in 1..MaxDeg, file \in FileContents,
          io \in IoModes, at \in 0..(MaxN - 1) :
          /\ at < N
          /\ io \in {"ok", "nosrc"} => at = 0
          /\ cfg = [N |-> N, DEG |-> DEG, PPN |-> 1, prog |-> BcastProg,
                    path |-> <<"bin", "app">>, file |-> file, io |-> io, at |-> at]
    /\ tree = [r \in Launchers |-> UnfurledTree(r)]
    /\ build = NoBuild
    /\ params = [r \in Launchers |-> session_init_params(cfg.N, cfg.DEG)]
    /\ pc = [r \in Launchers |-> 1]
    /\ loc = [r \in Launchers |->
                 [UnfurledSession(r) EXCEPT
                     !.map = IF r = 0 THEN app_params("/bin/app", cfg.PPN, 1)
                             ELSE strmap_new]]
    /\ ep = [r \in Launchers |-> <<>>]
    /\ up = [c \in 1..(cfg.N - 1) |-> <<>>]
    /\ down = [c \in 1..(cfg.N - 1) |-> <<>>]
    /\ spawned = <<>>
    /\ app = [a \in Apps |-> app_new]
    /\ ach = [a \in Apps |-> ach_new]

NextBcast ==
    \E r \in Launchers :
        \/ BcastStrmap(r)
        \/ SignalFromRoot(r)
        \/ SignalToRootRead(r)
        \/ SignalToRootWrite(r)
        \/ BcastRead(r)
        \/ BcastWrite(r)
        \/ WriteToRamdisk(r)
        \/ LaunchApps(r)

SpecBcast == InitBcast /\ [][NextBcast]_vars

\* -------------------------------------------------------------------------
\* Properties of bcast and bcast_file
\* -------------------------------------------------------------------------
\* the tree channel c carries the bcast messages of its launcher's parent
ParentOf(c) == CHOOSE r \in Launchers : c \in ChildSet(r)

SlotOf(c) ==
    CHOOSE k \in 1..tree[ParentOf(c)].children : tree[ParentOf(c)].child_ranks[k] = c

\* the bcasts of bcast_file whose bytes launcher c has read from its parent
BcastTaken(c) ==
    Cardinality({s \in 1..Len(cfg.prog) :
        /\ cfg.prog[s] \in BcastStmts
        /\ pc[c] > s \/ (pc[c] = s /\ loc[c].got)})

\* the bcasts of bcast_file whose bytes have been written to launcher c
BcastGiven(c) ==
    LET p == ParentOf(c)
    IN Cardinality({s \in 1..Len(cfg.prog) :
           /\ cfg.prog[s] \in BcastStmts
           /\ pc[p] > s \/ (pc[p] = s /\ loc[p].got /\ loc[p].i >= SlotOf(c))})

BcastInFlight(c) ==
    LET IsBcast(msg) == msg.kind = "bcast"
    IN SelectSeq(down[c], IsBcast)

\* the bytes the root has in its buffer for the second bcast of bcast_file
RootBuf ==
    IF cfg.io # "nosrc" THEN cfg.file
    ELSE IF Past(0, "write_to_ramdisk") THEN loc[0].scratch.bytes ELSE loc[0].buf

\* the two payloads of bcast_file, as the root sends them
RootBcasts == <<MsgBcast(<<loc[0].bufsize>>), MsgBcast(RootBuf)>>

\* C14: once bcast or bcast_strmap has returned on a launcher, the launcher
\* holds the payload of the root; what is on a channel is the payload of the
\* root, never a buffer that was written before the read from the parent had
\* returned; the children are written in list order; the root has no parent
\* to read from.
C14_Bcast ==
    /\ \A r \in Launchers :
          /\ Past(r, "bcast_strmap") => loc[r].map = loc[0].map
          /\ Past(r, "bcast_size") => loc[r].bufsize = loc[0].bufsize
          /\ Past(r, "bcast_buf") /\ ~Past(r, "write_to_ramdisk")
                 => loc[r].buf = RootBuf
    /\ \A c \in DOMAIN down :
          /\ \A n \in DOMAIN down[c] :
                down[c][n].kind = "strmap" => down[c][n] = MsgStrmap(loc[0].map)
          /\ BcastInFlight(c) = SubSeq(RootBcasts, BcastTaken(c) + 1, BcastGiven(c))
    /\ \A r \in Launchers : \A j, k \in 1..tree[r].children :
          j < k => BcastGiven(tree[r].child_ranks[j]) >= BcastGiven(tree[r].child_ranks[k])
    /\ tree[0].parent_ch = SPAWN_NET_CHANNEL_NULL

\* every launcher of a tree of depth 2 has the bytes of a file that is not
\* empty, and has not yet written them to its scratch file
C14_Witness ==
    /\ cfg.N = MaxN /\ cfg.DEG = 2 /\ Len(cfg.file) = MaxFile /\ cfg.io = "ok"
    /\ \A r \in Launchers : Stmt(r) = "write_to_ramdisk"

\* C16: when no file operation fails, for every file content and every tree:
\* once bcast_file has returned on a launcher (the root included), the file
\* /tmp/<basename> of its host has the bytes of the source file of the root,
\* and that name is returned; every tree channel carries the size and then
\* the bytes, each once.
C16_BcastFile ==
    cfg.io = "ok" =>
        /\ \A r \in Launchers :
              Past(r, "write_to_ramdisk") =>
                  /\ loc[r].scratch = [exists |-> TRUE, bytes |-> cfg.file]
                  /\ loc[r].newfile = "/tmp/app"
        /\ \A c \in DOMAIN down :
              /\ BcastInFlight(c)
                     = SubSeq(<<MsgBcast(<<Len(cfg.file)>>), MsgBcast(cfg.file)>>,
                              BcastTaken(c) + 1, BcastGiven(c))
              /\ Past(c, "write_to_ramdisk") => BcastTaken(c) = 2

\* bcast_file has returned on every launcher of a tree of depth 2
C16_Witness ==
    /\ cfg.N = MaxN /\ cfg.DEG = 2 /\ Len(cfg.file) = MaxFile /\ cfg.io = "ok"
    /\ \A r \in Launchers : Past(r, "write_to_ramdisk")

\* the launcher of process a has a scratch file with the bytes of the source
ScratchGood(r) ==
    /\ cfg.io # "nosrc"
    /\ loc[r].newfile # NULL
    /\ loc[r].scratch = [exists |-> TRUE, bytes |-> cfg.file]

\* C20: if the root cannot open or read the source file, or a launcher cannot
\* open or write its scratch file, the job is terminated and that launcher
\* forks no application process from a missing or partial binary.
C20_IoFailureStops ==
    \A a \in Apps : app[a].pc # "unborn" => ScratchGood(a[1])

\* -------------------------------------------------------------------------
\* Properties of gather_strmap
\* -------------------------------------------------------------------------
\* the launchers of the subtree of r that bring key, in the order of the merge
GatherSources(r, key) ==
    LET Brings(l) == strmap_get(AllgatherInput(l, cfg.inp[l]), key) # NULL
    IN SelectSeq(PreOrder(r), Brings)

\* the map the claim gives the subtree of r holds exactly the keys of the
\* inputs of the subtree, each with the value of the last launcher that
\* brings it
GatherIsMerge(map, r) ==
    /\ map = MergeInputs(strmap_new, PreOrder(r))
    /\ Len(map) = Cardinality(strmap_keys(map))
    /\ \A key \in {"K"} \cup {"k" \o itoa(l) : l \in Launchers} :
          LET from == GatherSources(r, key)
          IN strmap_get(map, key) =
                IF from = <<>> THEN NULL
                ELSE strmap_get(AllgatherInput(from[Len(from)],
                                               cfg.inp[from[Len(from)]]), key)

\* C15: the strmap a launcher writes to its parent in gather_strmap, and the
\* map of the root after it, is the merge of the inputs of exactly the
\* launchers of its subtree; of the values several launchers bring for a key
\* the one merged last survives, the children being merged in list order
\* after the launcher's own entries.
C15_Gather ==
    /\ \A c \in DOMAIN up : \A n \in DOMAIN up[c] :
          up[c][n].kind = "strmap" =>
              GatherIsMerge(strmap_unpack(up[c][n].data, strmap_new), c)
    /\ Stmt(0) = "bcast_strmap" => GatherIsMerge(loc[0].map, 0)

\* the root has gathered, over a tree of depth 2, a key that the launcher of
\* depth 2 and a later child of the root both bring
C15_Witness ==
    /\ cfg.N = MaxN /\ cfg.DEG = 2
    /\ Stmt(0) = "bcast_strmap"
    /\ cfg.inp[3] = 3 /\ cfg.inp[2] = 2 /\ cfg.inp[0] = 3

\* -------------------------------------------------------------------------
\* The PMI exchange with one process that does not keep to the protocol
\* -------------------------------------------------------------------------
InitPmiFault ==
    /\ \E N \in 1..MaxFaultN, PPN \in 1..MaxPPN, fault \in {"get", "close"} :
          \E rogue \in (0..(N - 1)) \X (0..(PPN - 1)) :
              cfg = [N |-> N, DEG |-> 1, PPN |-> PPN, prog |-> PmiProg,
                     rogue |-> rogue, fault |-> fault]
    /\ InitApps

SpecPmiFault == InitPmiFault /\ [][NextPmi]_vars

\* the launcher of the faulty process has done its reads of the BARRIER of
\* that process
ReadRogue ==
    LET r == cfg.rogue[1]
    IN \/ Past(r, "pmi_read")
       \/ /\ Stmt(r) = "pmi_read"
          /\ \E k \in 1..loc[r].i : loc[r].chs[k] = cfg.rogue

\* C17: if a process sends GET where BARRIER is expected, its launcher exits
\* (non-zero, with a diagnostic), and no other process of that launcher
\* receives BARRIER.
C17_ProtocolViolation ==
    (cfg.fault = "get" /\ ReadRogue) =>
        /\ pc[cfg.rogue[1]] = -2
        /\ \A a \in Apps : (a[1] = cfg.rogue[1] /\ a # cfg.rogue) => ~AppReleased(a)

\* C18: if a read from a channel fails during the PMI exchange (the process
\* has closed its channel), the launcher exits non-zero and does not go on
\* with the protocol.
C18_TransportFatal ==
    (cfg.fault = "close" /\ ReadRogue) => pc[cfg.rogue[1]] = -2

\* -------------------------------------------------------------------------
\* The PMI exchange with processes that issue one GET and then FINALIZE
\* -------------------------------------------------------------------------
\* cfg.exit: the process closes its channel once it has sent FINALIZE (it
\* exits); otherwise it keeps it until the launcher disconnects
InitPmiOneGet ==
    /\ \E N \in 1..MaxFaultN, PPN \in 1..MaxPPN, exit \in BOOLEAN :
          cfg = [N |-> N, DEG |-> 1, PPN |-> PPN, prog |-> PmiProg, exit |-> exit]
    /\ InitApps

\* the process has the value of its only key and finalizes
AppGetOnly(a) ==
    /\ app[a].pc = "get1"
    /\ ach[a].down # <<>>
    /\ app' = [app EXCEPT ![a].val1 = Head(ach[a].down).data,
                          ![a].pc = IF cfg.exit THEN "closed" ELSE "done"]
    /\ ach' = [ach EXCEPT ![a].down = Tail(@),
                          ![a].up = Append(@, MsgStr("FINALIZE"))]
    /\ UNCHANGED <<cfg, tree, build, params, pc, loc, ep, up, down, spawned>>

NextPmiOneGet ==
    \/ \E r \in Launchers :
        \/ SignalFromRoot(r)
        \/ SignalToRootRead(r)
        \/ SignalToRootWrite(r)
        \/ LaunchApps(r)
        \/ PmiAccept(r)
        \/ PmiInit(r)
        \/ PmiRead(r)
        \/ GatherRead(r)
        \/ GatherWrite(r)
        \/ BcastStrmap(r)
        \/ PmiBarrier(r)
        \/ PmiGet(r)
        \/ PmiFinalize(r)
    \/ \E a \in Apps :
        \/ AppConnect(a)
        \/ AppInit(a)
        \/ AppBarrier(a)
        \/ AppGetOnly(a)

\* every launcher and every process takes its next step when it can
SpecPmiOneGet == InitPmiOneGet /\ [][NextPmiOneGet]_vars /\ WF_vars(NextPmiOneGet)

\* C34: a PMI exchange in which every process issues one GET and then
\* FINALIZE completes: each process has the value of its GET, its channel is
\* disconnected, and pmi_exchange has returned on every launcher
C34_OneGetCompletes ==
    <>(/\ AllReturned
       /\ \A a \in Apps : app[a].val1 = AppVal(AppPeer(a)) /\ ~ach[a].open)

\* what holds: while the processes keep their channels, no launcher gets
\* past its second loop of GETs, and no channel is disconnected
OneGetBlocks ==
    ~cfg.exit => \A r \in Launchers :
                    /\ ~Past(r, "pmi_get2")
                    /\ \A a \in Apps : app[a].pc = "done" => ach[a].open

\* the launcher has read FINALIZE where it expects the second GET and waits
\* for the key, with every process waiting for the disconnect
OneGetStuck ==
    /\ ~cfg.exit
    /\ \A a \in Apps : app[a].pc = "done" /\ app[a].val1 = AppVal(AppPeer(a))
    /\ \A r \in Launchers : Stmt(r) = "pmi_get2" /\ ~ENABLED PmiGet(r)

\* -------------------------------------------------------------------------
\* The unfurl when the fork or the exec of one child launcher fails
\* -------------------------------------------------------------------------
\* cfg.failed is the id of the launcher that does not start (0: none)
InitUnfurlFault ==
    /\ \E N \in 1..MaxN, DEG \in 1..MaxDeg, failed \in 0..(MaxN - 1),
          fault \in {"fork", "exec"} :
          /\ failed < N
          /\ cfg = [N |-> N, DEG |-> DEG, PPN |-> 1, prog |-> UnfurlProg,
                    failed |-> failed, fault |-> fault]
    /\ tree = [r \in Launchers |-> tree_new]
    /\ build = NoBuild
    /\ params = [r \in Launchers |->
                    IF r = 0 THEN session_init_params(cfg.N, cfg.DEG) ELSE strmap_new]
    /\ pc = [r \in Launchers |-> IF r = 0 THEN 3 ELSE 0]
    /\ loc = [r \in Launchers |-> session_new]
    /\ ep = [r \in Launchers |-> <<>>]
    /\ up = [c \in 1..(cfg.N - 1) |-> <<>>]
    /\ down = [c \in 1..(cfg.N - 1) |-> <<>>]
    /\ spawned = [c \in 1..(cfg.N - 1) |-> <<>>]
    /\ app = <<>>
    /\ ach = <<>>

\* every launcher takes its next step when it can: it is a process of its own
SpecUnfurlFault == InitUnfurlFault /\ [][NextUnfurl]_vars /\ WF_vars(NextUnfurl)

\* no launcher is running: each has exited, returned from session_start with
\* an error, or never started
JobTerminated == \A r \in Launchers : pc[r] \in {0, -1, -2}

\* C19: if the fork or the exec of a child launcher fails, so that the child
\* never connects back, the whole job terminates: no launcher stays blocked
\* for ever in the accept of the missing child.
C19_SpawnFailureStops == (cfg.failed # 0) => <>JobTerminated

\* what holds of the code: the parent of the launcher that did not start
\* goes on to accept, and never leaves it
SpawnFailureBlocks ==
    \A r \in Launchers :
        (cfg.failed # 0 /\ cfg.failed \in ChildSet(r)) =>
            /\ pc[r] <= FirstStmt("accept")
            /\ pc[r] >= 0

\* -------------------------------------------------------------------------
\* The end of session_start: the application processes are forked, then the
\* launcher waits for the signal of the root and for its exited children
\* -------------------------------------------------------------------------
TeardownProg == <<"signal_from_root", "launch_apps", "signal_to_root",
                  "signal_from_root", "signal_to_root",
                  "signal_from_root", "wait_exited">>

InitTeardown ==
    /\ \E N \in 1..MaxN, DEG \in 1..MaxDeg, PPN \in 1..MaxPPN :
          cfg = [N |-> N, DEG |-> DEG, PPN |-> PPN, prog |-> TeardownProg]
    /\ InitApps

\* an application process that runs without PMI or ring ends on its own
AppExit(a) ==
    /\ app[a].pc = "exec"
    /\ app' = [app EXCEPT ![a].pc = "exited"]
    /\ UNCHANGED <<cfg, tree, build, params, pc, loc, ep, up, down, spawned, ach>>

\* session_start has returned 0 at launcher r
Returned(r) == pc[r] = Len(cfg.prog) + 1

\* the launcher process ends after session_start has returned
LauncherExit(r) ==
    /\ Returned(r)
    /\ pc' = [pc EXCEPT ![r] = -2]
    /\ UNCHANGED <<cfg, tree, build, params, loc, ep, up, down, spawned, app, ach>>

\* the processes launcher r forked that have exited: child launchers and
\* application processes
get_num_exited(r) ==
    Cardinality({c \in ChildSet(r) : pc[c] = -2})
        + Cardinality({a \in Apps : a[1] = r /\ app[a].pc = "exited"})

\* while (children > get_num_exited());
WaitExited(r) ==
    /\ Stmt(r) = "wait_exited"
    /\ ~(tree[r].children > get_num_exited(r))
    /\ pc' = [pc EXCEPT ![r] = @ + 1]
    /\ UNCHANGED <<cfg, tree, build, params, loc, ep, up, down, spawned, app, ach>>

NextTeardown ==
    \/ \E r \in Launchers :
          \/ SignalFromRoot(r)
          \/ SignalToRootRead(r)
          \/ SignalToRootWrite(r)
          \/ LaunchApps(r)
          \/ WaitExited(r)
          \/ LauncherExit(r)
    \/ \E a \in Apps : AppExit(a)

SpecTeardown == InitTeardown /\ [][NextTeardown]_vars

\* C21: session_start returns at a launcher only after every process the
\* launcher forked, its child launchers and its PPN application processes,
\* has exited; at a leaf launcher too.
C21_TeardownWaits ==
    \A r \in Launchers :
        (Returned(r) \/ pc[r] = -2) =>
            /\ \A c \in ChildSet(r) : pc[c] = -2
            /\ \A a \in Apps : a[1] = r => app[a].pc = "exited"

\* what holds of the code: a launcher returns only when as many of its
\* processes have exited as it has child launchers
TeardownCounts ==
    \A r \in Launchers : Returned(r) => get_num_exited(r) >= tree[r].children

\* -------------------------------------------------------------------------
\* The registry of process groups: process_group_start after the broadcast
\* of the application parameters, and process_group_delete
\* -------------------------------------------------------------------------
GroupProg ==
    <<"bcast_strmap", "signal_to_root",
      "signal_from_root", "launch_apps", "signal_to_root",
      "signal_from_root", "signal_to_root">>

InitGroup ==
    /\ \E N \in 1..MaxN, DEG \in 1..MaxDeg, PPN \in 0..MaxPPN :
          cfg = [N |-> N, DEG |-> DEG, PPN |-> PPN, prog |-> GroupProg,
                 appmap |-> TRUE]
    /\ tree = [r \in Launchers |-> UnfurledTree(r)]
    /\ build = NoBuild
    /\ params = [r \in Launchers |-> session_init_params(cfg.N, cfg.DEG)]
    /\ pc = [r \in Launchers |-> 1]
    /\ loc = [r \in Launchers |->
                 [UnfurledSession(r) EXCEPT
                     !.map = IF r = 0 THEN app_params("/bin/hostname", cfg.PPN, 0)
                             ELSE strmap_new]]
    /\ ep = [r \in Launchers |-> <<>>]
    /\ up = [c \in 1..(cfg.N - 1) |-> <<>>]
    /\ down = [c \in 1..(cfg.N - 1) |-> <<>>]
    /\ spawned = <<>>
    /\ app = [a \in Apps |-> app_new]
    /\ ach = [a \in Apps |-> ach_new]

\* free the name, the parameters, the pids and the structure of the group
process_group_delete(s, p) ==
    [s EXCEPT !.groups[p] = [process_group_new EXCEPT !.freed = TRUE]]

\* the group process_group_start returned is destroyed
ProcessGroupDelete(r) ==
    /\ pc[r] = Len(cfg.prog) + 1
    /\ loc[r].pg # 0
    /\ ~loc[r].groups[loc[r].pg].freed
    /\ loc' = [loc EXCEPT ![r] = process_group_delete(@, loc[r].pg)]
    /\ UNCHANGED <<cfg, tree, build, params, pc, ep, up, down, spawned, app, ach>>

NextGroup ==
    \E r \in Launchers :
        \/ BcastStrmap(r)
        \/ SignalFromRoot(r)
        \/ SignalToRootRead(r)
        \/ SignalToRootWrite(r)
        \/ LaunchApps(r)
        \/ ProcessGroupDelete(r)

SpecGroup == InitGroup /\ [][NextGroup]_vars

\* names and pids the lookups are tried with
GroupNames == {"GROUP_0", "GROUP_1", "NAME", ""}

GroupPids == {-1} \cup (40..(50 + MaxPPN))

LocalPids(r) == {AppPid(a) : a \in {b \in Apps : b[1] = r}}

\* C22: after process_group_start, process_group_by_name(NAME) returns the
\* group just created and process_group_by_pid(p) returns NAME for each of
\* the PPN pids forked for it; a name or a pid that was never registered
\* yields NULL.
C22_RegistryPopulated ==
    \A r \in Launchers :
        LET s == loc[r]
        IN IF Past(r, "launch_apps")
           THEN /\ s.pg # 0
                /\ process_group_by_name(s, "GROUP_0") = s.pg
                /\ \A n \in GroupNames \ {"GROUP_0"} : process_group_by_name(s, n) = 0
                /\ \A pid \in GroupPids :
                      process_group_by_pid(s, pid) =
                          IF pid \in LocalPids(r) THEN "GROUP_0" ELSE NULL
                /\ ~s.groups[s.pg].freed =>
                      /\ s.groups[s.pg].name = "GROUP_0"
                      /\ s.groups[s.pg].num = cfg.PPN
                      /\ \A i \in 1..cfg.PPN : s.groups[s.pg].pids[i] = AppPid(<<r, i - 1>>)
           ELSE /\ \A n \in GroupNames : process_group_by_name(s, n) = 0
                /\ \A pid \in GroupPids : process_group_by_pid(s, pid) = NULL

C22_Witness ==
    \E r \in Launchers :
        /\ r # 0
        /\ Past(r, "launch_apps")
        /\ cfg.PPN = MaxPPN
        /\ process_group_by_pid(loc[r], AppPid(<<r, 1>>)) = "GROUP_0"
        /\ ~Past(0, "launch_apps")

\* C23: after a process group is destroyed, its name is no longer in the
\* name index and none of its pids is in the pid index: no lookup returns
\* the destroyed group.
C23_DestroyUnmaps ==
    \A r \in Launchers :
        \A p \in 1..Len(loc[r].groups) :
            loc[r].groups[p].freed =>
                /\ \A n \in GroupNames : process_group_by_name(loc[r], n) # p
                /\ \A pid \in LocalPids(r) : process_group_by_pid(loc[r], pid) = NULL

\* -------------------------------------------------------------------------
\* The root's environment: session_init of the root, the unfurl with the
\* remote copy of the launcher, and the launch of the application processes
\* -------------------------------------------------------------------------
MaxCfgN == 3   \* launchers in the runs that start from the environment

NetVals == {NULL, "ibud", "udp"}

DegVals == {NULL, "3", "1", "x"}

ShVals == {NULL, "ssh", "telnet"}

LocalVals == {NULL, "sh", "shell", "direct", "exec"}

CopyVals == {NULL, "1", "x"}

PpnVals == {NULL, "2", "x"}

\* the value of an environment variable, or the default when it is not set
getenv_or(value, default) == IF value # NULL THEN value ELSE default

\* the tests of session_init that end the root with _exit(EXIT_FAILURE)
session_init_exits(env) ==
    \/ env.net # NULL /\ env.net # "tcp" /\ env.net # "ibud"
    \/ getenv_or(env.sh, "rsh") # "ssh" /\ getenv_or(env.sh, "rsh") # "rsh"
    \/ getenv_or(env.local, "direct") # "sh" /\ getenv_or(env.local, "direct") # "direct"

\* the parameters session_init of the root builds from the environment
session_init_env(env, argc) ==
    LET copy == IF env.copy # NULL THEN atoi(env.copy) ELSE 0
        p1 == strmap_set(strmap_new, "COPY", itoa(copy))
        p2 == strmap_set(p1, "EXE", IF copy # 0 THEN "/tmp/spawn" ELSE "/spawn")
        p3 == strmap_set(p2, "N", itoa(argc))
        p4 == set_hosts(p3, 0, argc)
        p5 == strmap_set(p4, "DEG",
                  IF env.degree # NULL THEN itoa(atoi(env.degree)) ELSE itoa(2))
        p6 == strmap_set(p5, "SH", getenv_or(env.sh, "rsh"))
        p7 == strmap_set(p6, "LOCAL", getenv_or(env.local, "direct"))
    IN find_command(find_command(find_command(find_command(find_command(
           find_command(p7, "ssh"), "scp"), "rsh"), "rcp"), "sh"), "env")

ConfigProg ==
    <<"connect", "read_params", "identify", "copy_fork", "copy_wait", "launch",
      "accept", "handshake", "signal_to_root",
      "signal_from_root", "launch_apps", "signal_to_root">>

InitConfig ==
    /\ \E N \in 1..MaxCfgN, net \in NetVals, degree \in DegVals, sh \in ShVals,
          local \in LocalVals, copy \in CopyVals, ppn \in PpnVals :
          cfg = [N |-> N,
                 DEG |-> IF degree # NULL THEN atoi(degree) ELSE 2,
                 PPN |-> IF ppn # NULL THEN atoi(ppn) ELSE 1,
                 prog |-> ConfigProg,
                 env |-> [net |-> net, degree |-> degree, sh |-> sh,
                          local |-> local, copy |-> copy, ppn |-> ppn]]
    /\ tree = [r \in Launchers |-> tree_new]
    /\ build = NoBuild
    /\ params = [r \in Launchers |-> strmap_new]
    /\ pc = [r \in Launchers |-> 0]
    /\ loc = [r \in Launchers |-> session_new]
    /\ ep = [r \in Launchers |-> <<>>]
    /\ up = [c \in 1..(cfg.N - 1) |-> <<>>]
    /\ down = [c \in 1..(cfg.N - 1) |-> <<>>]
    /\ spawned = [c \in 1..(cfg.N - 1) |-> <<>>]
    /\ app = [a \in Apps |-> app_new]
    /\ ach = [a \in Apps |-> ach_new]

\* session_init of the root, then the start of session_start
SessionInit ==
    /\ pc[0] = 0
    /\ IF session_init_exits(cfg.env)
       THEN /\ pc' = [pc EXCEPT ![0] = -2]
            /\ UNCHANGED params
       ELSE /\ pc' = [pc EXCEPT ![0] = FirstStmt("identify")]
            /\ params' = [params EXCEPT ![0] = session_init_env(cfg.env, cfg.N)]
    /\ UNCHANGED <<cfg, tree, build, loc, ep, up, down, spawned, app, ach>>

\* copy_launcher = atoi(COPY) of the parameters
copy_launcher(r) == atoi(strmap_get(params[r], "COPY"))

\* if (copy_launcher): copy_exe for child i, a helper that execs the remote copy
CopyFork(r) ==
    /\ Stmt(r) = "copy_fork"
    /\ LET i          == loc[r].i
           child_rank == tree[r].child_ranks[i + 1]
           host       == strmap_get(params[r], itoa(child_rank))
           last       == i + 1 = tree[r].children
       IN IF copy_launcher(r) = 0
          THEN /\ pc' = [pc EXCEPT ![r] = FirstStmt("launch")]
               /\ UNCHANGED loc
          ELSE IF host = NULL
          THEN /\ pc' = [pc EXCEPT ![r] = -1]
               /\ UNCHANGED loc
          ELSE /\ loc' = [loc EXCEPT
                      ![r].pids = Append(@, [host |-> host, state |-> "running"]),
                      ![r].i = IF last THEN 0 ELSE i + 1]
               /\ pc' = [pc EXCEPT ![r] = IF last THEN @ + 1 ELSE @]
    /\ UNCHANGED <<cfg, tree, build, params, ep, up, down, spawned, app, ach>>

\* the remote copy of helper i of launcher r ends
HelperExit(r, i) ==
    /\ i \in DOMAIN loc[r].pids
    /\ loc[r].pids[i].state = "running"
    /\ loc' = [loc EXCEPT ![r].pids[i].state = "exited"]
    /\ UNCHANGED <<cfg, tree, build, params, pc, ep, up, down, spawned, app, ach>>

\* mutant: the wait returns while the helper runs
copy_wait_any(state) == TRUE

\* waitpid(pids[i]) returns once the helper has exited
copy_wait(state) == state = "exited"

\* wait for all copies to complete
CopyWait(r) ==
    /\ Stmt(r) = "copy_wait"
    /\ LET i    == loc[r].i
           last == i + 1 = tree[r].children
       IN /\ copy_wait(loc[r].pids[i + 1].state)
          /\ loc' = [loc EXCEPT ![r].pids[i + 1].state =
                                    IF @ = "exited" THEN "reaped" ELSE @,
                                ![r].i = IF last THEN 0 ELSE i + 1]
          /\ pc' = [pc EXCEPT ![r] = IF last THEN @ + 1 ELSE @]
    /\ UNCHANGED <<cfg, tree, build, params, ep, up, down, spawned, app, ach>>

NextConfig ==
    \/ SessionInit
    \/ \E r \in Launchers :
          \/ ConnectParent(r)
          \/ ReadParams(r)
          \/ IdentifyChildren(r)
          \/ CopyFork(r)
          \/ CopyWait(r)
          \/ \E i \in 1..MaxCfgN : HelperExit(r, i)
          \/ LaunchChild(r)
          \/ AcceptChild(r)
          \/ HandshakeChild(r)
          \/ SignalToRootRead(r)
          \/ SignalToRootWrite(r)
          \/ SignalFromRoot(r)
          \/ LaunchApps(r)

SpecConfig == InitConfig /\ [][NextConfig]_vars

\* -------------------------------------------------------------------------
\* Properties of the root's configuration and of the staging of the launcher
\* -------------------------------------------------------------------------
\* nothing has been forked: no launcher, no copy helper, no application process
NothingForked ==
    /\ \A c \in DOMAIN spawned : spawned[c] = <<>>
    /\ \A r \in Launchers : loc[r].pids = <<>>
    /\ \A a \in Apps : app[a].pc = "unborn"

\* the root has ended in session_init (or has not yet run it) and nothing has
\* been forked
RootRejects == pc[0] \in {0, -2} /\ NothingForked

\* a string of decimal digits
Numeric(str) == itoa(atoi(str)) = str

\* a value of the root's environment that the specification calls invalid
EnvInvalid ==
    LET env == cfg.env
    IN \/ env.net \notin {NULL, "tcp", "ibud"}
       \/ env.degree # NULL /\ (~Numeric(env.degree) \/ atoi(env.degree) < 2)
       \/ env.sh \notin {NULL, "ssh", "rsh"}
       \/ env.local \notin {NULL, "sh", "shell", "direct"}
       \/ env.copy \notin {NULL, "0", "1"}
       \/ env.ppn # NULL /\ ~Numeric(env.ppn)

\* C24: an invalid value of a root environment input makes the root exit
\* with failure before any child is forked.
C24_InvalidConfigFatal == EnvInvalid => RootRejects

\* what holds of the code: the values session_init tests, those of
\* MV2_SPAWN_NET, MV2_SPAWN_SH and MV2_SPAWN_LOCAL, are fatal at the root
ConfigChecked == session_init_exits(cfg.env) => RootRejects

\* the rest of the environment passes the tests of session_init
OthersPass == ~session_init_exits([cfg.env EXCEPT !.local = NULL])

\* the local launch kind, when shell is the value that asks for the shell:
\* with it and with direct the root starts and the processes are launched
\* through the shell, or exec'd directly; any other value ends the root
LocalKind(shell) ==
    LET l == cfg.env.local
    IN /\ (l \in {shell, "direct"} /\ OthersPass) => pc[0] # -2
       /\ \A a \in Apps :
             app[a].pc # "unborn" =>
                /\ l = shell => app[a].via = "exec_shell"
                /\ l = "direct" => app[a].via = "exec_direct"
       /\ (l \notin {NULL, shell, "direct"}) => RootRejects

ForkedChild(r) ==
    \E c \in DOMAIN spawned : \E j \in DOMAIN spawned[c] : spawned[c][j].by = r

\* C28: with COPY=1 a launcher forks one remote-copy helper per child and
\* waits for every one of them to exit before it forks the first child
\* launcher; with COPY=0 no helper is forked.
C28_CopyStaging ==
    \A r \in Launchers :
        LET copy == strmap_get(params[r], "COPY")
            t    == tree[r]
        IN /\ copy = "0" => loc[r].pids = <<>>
           /\ (copy = "1" /\ ForkedChild(r)) =>
                 /\ Len(loc[r].pids) = t.children
                 /\ \A i \in 1..t.children :
                       /\ loc[r].pids[i].state # "running"
                       /\ loc[r].pids[i].host =
                              strmap_get(params[r], itoa(t.child_ranks[i]))

C28_Witness ==
    \E r \in Launchers :
        /\ strmap_get(params[r], "COPY") = "1"
        /\ tree[r].children = 2
        /\ ForkedChild(r)
        /\ pc[2] = 0

\* -------------------------------------------------------------------------
\* A whole session with PMI=1 and RING=1: session_init of the root, the
\* unfurl, process_group_start, pmi_exchange and then ring_exchange on the
\* same endpoint
\* -------------------------------------------------------------------------
MaxSessN == 2   \* launchers in the whole session

\* mutant: the ring channels are accepted before the FINALIZE of PMI is read
SessionProgRingEarly ==
    SubSeq(ConfigProg, 1, 9) \o SubSeq(PmiProg, 1, 22)
        \o <<"signal_from_root", "ring_accept", "signal_to_root">>
        \o SubSeq(PmiProg, 23, Len(PmiProg))
        \o SubSeq(RingProg, 8, Len(RingProg))

\* the unfurl, the launch of the processes and pmi_exchange, then
\* ring_exchange
SessionProg ==
    SubSeq(ConfigProg, 1, 9) \o PmiProg \o SubSeq(RingProg, 4, Len(RingProg))

InitSession ==
    /\ \E N \in 1..MaxSessN, PPN \in 1..MaxPPN, copy \in {NULL, "1"} :
          cfg = [N |-> N, DEG |-> 2, PPN |-> PPN, prog |-> SessionProg,
                 ring |-> TRUE,
                 env |-> [net |-> NULL, degree |-> NULL, sh |-> NULL,
                          local |-> NULL, copy |-> copy, ppn |-> itoa(PPN)]]
    /\ tree = [r \in Launchers |-> tree_new]
    /\ build = NoBuild
    /\ params = [r \in Launchers |-> strmap_new]
    /\ pc = [r \in Launchers |-> 0]
    /\ loc = [r \in Launchers |-> session_new]
    /\ ep = [r \in Launchers |-> <<>>]
    /\ up = [c \in 1..(cfg.N - 1) |-> <<>>]
    /\ down = [c \in 1..(cfg.N - 1) |-> <<>>]
    /\ spawned = [c \in 1..(cfg.N - 1) |-> <<>>]
    /\ app = [a \in Apps |-> app_new]
    /\ ach = [a \in Apps |-> ach_new]

NextSession ==
    \/ SessionInit
    \/ \E r \in Launchers :
          \/ ConnectParent(r)
          \/ ReadParams(r)
          \/ IdentifyChildren(r)
          \/ CopyFork(r)
          \/ CopyWait(r)
          \/ \E i \in 1..MaxSessN : HelperExit(r, i)
          \/ LaunchChild(r)
          \/ AcceptChild(r)
          \/ HandshakeChild(r)
          \/ SignalToRootRead(r)
          \/ SignalToRootWrite(r)
          \/ SignalFromRoot(r)
          \/ LaunchApps(r)
          \/ PmiAccept(r)
          \/ PmiInit(r)
          \/ PmiRead(r)
          \/ GatherRead(r)
          \/ GatherWrite(r)
          \/ BcastStrmap(r)
          \/ PmiBarrier(r)
          \/ PmiGet(r)
          \/ PmiFinalize(r)
          \/ RingAccept(r)
          \/ RingRead(r)
          \/ RingInput(r)
          \/ RingScanRead(r)
          \/ RingScanUp(r)
          \/ RingScanDown(r)
          \/ RingWrite(r)
          \/ RingDisconnect(r)
    \/ \E a \in Apps :
          \/ AppConnect(a)
          \/ AppInit(a)
          \/ AppBarrier(a)
          \/ AppGet1(a)
          \/ AppGet2(a)
          \/ AppRingReconnect(a)
          \/ AppRingSend(a)
          \/ AppRingRead(a)

SpecSession == InitSession /\ [][NextSession]_vars

\* -------------------------------------------------------------------------
\* Properties of the whole session
\* -------------------------------------------------------------------------
\* launcher r has its parameters: the root after session_init, another
\* launcher once it has read them from its parent
HasParams(r) == IF r = 0 THEN pc[0] # 0 ELSE Past(r, "read_params")

\* C26: once a launcher has its parameters, no later step of session_start,
\* process_group_start, pmi_exchange or ring_exchange adds, removes or
\* changes a key of them.
C26_ParamsReadOnly ==
    [][\A r \in Launchers : HasParams(r) => params'[r] = params[r]]_vars

\* every launcher is through the ring exchange with the parameters of the root
C26_Witness ==
    /\ cfg.N = MaxSessN
    /\ \A r \in Launchers :
          /\ pc[r] = Len(cfg.prog) + 1
          /\ params[r] = session_init_env(cfg.env, cfg.N)
    /\ \A a \in Apps : app[a].pc = "done"

\* the launcher has disconnected the PMI channel of process b
PmiClosed(b) ==
    \/ ach[b].kind = "ring"
    \/ ach[b].kind = "pmi" /\ ~ach[b].open

\* launcher r takes a connection from its endpoint in this step
Accepts(r) == ep[r] # <<>> /\ ep'[r] = Tail(ep[r])

\* C30: with PMI and RING both enabled, every launcher has disconnected all
\* its PPN PMI channels before it accepts its first ring channel, every
\* connection a PMI accept takes is a PMI connection and every connection a
\* ring accept takes is a ring connection, for any interleaving of the
\* application processes.
C30_PmiThenRing ==
    [][\A r \in Launchers :
          Accepts(r) =>
              LET a == Head(ep[r])
              IN /\ Stmt(r) = "pmi_accept" => app[a].conn = "pmi"
                 /\ Stmt(r) = "ring_accept" =>
                       /\ app[a].conn = "ring"
                       /\ \A b \in Apps : b[1] = r => PmiClosed(b)]_vars

\* a launcher has accepted the ring connection of its second process first
C30_Witness ==
    \E r \in Launchers :
        /\ r # 0
        /\ Stmt(r) = "ring_accept"
        /\ loc[r].chs = <<<<r, 1>>>>
        /\ app[<<r, 0>>].pc = "ring_connected"

\* the statements of cfg.prog from index i to index j that are waves
WavesIn(i, j) ==
    {k \in i..j : cfg.prog[k] \in {"signal_from_root", "signal_to_root"}}

\* index i is the signal_from_root that opens a phase: work follows it, and
\* the next wave is a signal_to_root
PhaseStart(i) ==
    /\ cfg.prog[i] = "signal_from_root"
    /\ i < Len(cfg.prog) /\ WavesIn(i + 1, i + 1) = {}
    /\ \E j \in (i + 2)..Len(cfg.prog) :
          cfg.prog[j] = "signal_to_root" /\ WavesIn(i + 1, j - 1) = {}

\* index j is the signal_to_root that closes a phase
PhaseEnd(j) ==
    /\ cfg.prog[j] = "signal_to_root"
    /\ j > 1 /\ WavesIn(j - 1, j - 1) = {}
    /\ \E i \in 1..(j - 2) :
          cfg.prog[i] = "signal_from_root" /\ WavesIn(i + 1, j - 1) = {}

\* C35: of two phases that are each between a signal_from_root and a
\* signal_to_root, no launcher is in the work of the later one before every
\* launcher has done the work of the earlier one; no application process is
\* forked before every launcher has completed the handshake of the unfurl
C35_PhaseSeparation ==
    /\ \A r, q \in Launchers :
          \A j \in (IF pc[q] < 0 THEN 1 ELSE pc[q] + 1)..(pc[r] - 2) :
              PhaseEnd(j) => \A i \in (j + 1)..(pc[r] - 1) : ~PhaseStart(i)
    /\ \A a \in Apps :
          app[a].pc # "unborn" => \A q \in Launchers : Past(q, "handshake")

\* the root is in the accepts of pmi_exchange, the phase after the launch of
\* the processes, while the last launcher, which has forked its processes,
\* still waits for the wave between the two phases
C35_Witness ==
    /\ cfg.N = MaxSessN
    /\ PhaseEnd(FirstStmt("launch_apps") + 1)
    /\ PhaseStart(FirstStmt("pmi_accept") - 1)
    /\ Stmt(0) = "pmi_accept"
    /\ pc[cfg.N - 1] = FirstStmt("launch_apps") + 2
    /\ app[<<cfg.N - 1, 0>>].pc # "unborn"

\* -------------------------------------------------------------------------
\* The measurement collectives of session_start, the launch of the
\* application processes, and the process table of the debugger
\* -------------------------------------------------------------------------
MPIR_DEBUG_SPAWNED == 1

\* mutant: the debugger is told before the table is filled
MeasureProgBreakFirst(mpir) ==
    <<"signal_from_root", "pid_set", "gather_strmap", "signal_to_root">>
    \o (IF mpir = "spawn"
        THEN <<"mpir_breakpoint", "mpir_fill", "signal_from_root">> ELSE <<>>)
    \o <<"signal_from_root", "ep_set", "gather_strmap", "bcast_strmap",
         "signal_to_root", "pack_unpack",
         "signal_from_root", "signal_to_root", "signal_from_root",
         "signal_from_root", "launch_apps", "signal_to_root">>
    \o (IF mpir = "app"
        THEN <<"signal_from_root", "procmap_set", "gather_strmap", "signal_to_root",
               "mpir_breakpoint", "mpir_fill", "signal_from_root">>
        ELSE <<>>)

\* session_start from the gather of the launcher pids to the loop of signal
\* waves (one round of it), then process_group_start to the process table
MeasureProg(mpir) ==
    <<"signal_from_root", "pid_set", "gather_strmap", "signal_to_root">>
    \o (IF mpir = "spawn"
        THEN <<"mpir_fill", "mpir_breakpoint", "signal_from_root">> ELSE <<>>)
    \o <<"signal_from_root", "ep_set", "gather_strmap", "bcast_strmap",
         "signal_to_root", "pack_unpack",
         "signal_from_root", "signal_to_root", "signal_from_root",
         "signal_from_root", "launch_apps", "signal_to_root">>
    \o (IF mpir = "app"
        THEN <<"signal_from_root", "procmap_set", "gather_strmap", "signal_to_root",
               "mpir_fill", "mpir_breakpoint", "signal_from_root">>
        ELSE <<>>)

\* the parameters of the root when it runs under a debugger: MPIR is set first
session_init_mpir(mpir, argc, degree) ==
    IF mpir = NULL THEN session_init_params(argc, degree)
    ELSE <<<<"MPIR", mpir>>>> \o session_init_params(argc, degree)

InitMeasure ==
    /\ \E N \in 1..MaxPmiN, DEG \in 1..MaxPmiDeg, PPN \in 1..MaxPPN,
          mpir \in {NULL, "spawn", "app"} :
          cfg = [N |-> N, DEG |-> DEG, PPN |-> PPN, prog |-> MeasureProg(mpir),
                 mpir |-> mpir]
    /\ tree = [r \in Launchers |-> UnfurledTree(r)]
    /\ build = NoBuild
    /\ params = [r \in Launchers |-> session_init_mpir(cfg.mpir, cfg.N, cfg.DEG)]
    /\ pc = [r \in Launchers |-> 1]
    /\ loc = [r \in Launchers |-> UnfurledSession(r)]
    /\ ep = [r \in Launchers |-> <<>>]
    /\ up = [c \in 1..(cfg.N - 1) |-> <<>>]
    /\ down = [c \in 1..(cfg.N - 1) |-> <<>>]
    /\ spawned = <<>>
    /\ app = [a \in Apps |-> app_new]
    /\ ach = [a \in Apps |-> ach_new]

\* mutant: the collective runs on the parameters of the session
measure_params_shared(p, key, value) == strmap_set(p, key, value)

\* the parameters of the session after the launcher has put its entry into
\* the new strmap of a measurement collective
measure_params(p, key, value) == p

\* spawnproc_strmap: rank = pid of the launcher
PidSet(r) ==
    /\ Stmt(r) = "pid_set"
    /\ loc' = [loc EXCEPT ![r].map =
                 strmap_set(strmap_new, itoa(tree[r].rank), itoa(LauncherPid(r)))]
    /\ params' = [params EXCEPT ![r] =
                 measure_params(@, itoa(tree[r].rank), itoa(LauncherPid(r)))]
    /\ pc' = [pc EXCEPT ![r] = NextStmt(r, tree[r])]
    /\ UNCHANGED <<cfg, tree, build, ep, up, down, spawned, app, ach>>

\* spawnep_strmap: rank = name of the endpoint of the launcher
EpSet(r) ==
    /\ Stmt(r) = "ep_set"
    /\ loc' = [loc EXCEPT ![r].map =
                 strmap_set(strmap_new, itoa(tree[r].rank), EpName(r))]
    /\ params' = [params EXCEPT ![r] =
                 measure_params(@, itoa(tree[r].rank), EpName(r))]
    /\ pc' = [pc EXCEPT ![r] = NextStmt(r, tree[r])]
    /\ UNCHANGED <<cfg, tree, build, ep, up, down, spawned, app, ach>>

\* the root packs spawnep_strmap and unpacks it into a strmap that it
\* deletes; every launcher then deletes spawnep_strmap
PackUnpack(r) ==
    /\ Stmt(r) = "pack_unpack"
    /\ loc' = [loc EXCEPT ![r].map = strmap_new]
    /\ pc' = [pc EXCEPT ![r] = NextStmt(r, tree[r])]
    /\ UNCHANGED <<cfg, tree, build, params, ep, up, down, spawned, app, ach>>

\* procmap: host, pid and executable of each process of the launcher, under
\* the keys H, P and E followed by the rank of the process
RECURSIVE procmap_set(_, _, _, _, _, _)
procmap_set(map, rank, hostname, pids, exe, i) ==
    IF i >= Len(pids) THEN map
    ELSE LET child_rank == rank * Len(pids) + i
             m1 == strmap_set(map, "H" \o itoa(child_rank), hostname)
             m2 == strmap_set(m1, "P" \o itoa(child_rank), itoa(pids[i + 1]))
             m3 == strmap_set(m2, "E" \o itoa(child_rank), exe)
         IN procmap_set(m3, rank, hostname, pids, exe, i + 1)

ProcmapSet(r) ==
    /\ Stmt(r) = "procmap_set"
    /\ loc' = [loc EXCEPT ![r].map =
                 procmap_set(strmap_new, tree[r].rank, HostName(r),
                             loc[r].groups[loc[r].pg].pids, app_exe(r), 0)]
    /\ pc' = [pc EXCEPT ![r] = NextStmt(r, tree[r])]
    /\ UNCHANGED <<cfg, tree, build, params, ep, up, down, spawned, app, ach>>

\* MPIR_proctable_size in the two modes
mpir_size(mpir, ranks, numprocs) ==
    IF mpir = "spawn" THEN ranks ELSE ranks * numprocs

\* the descriptor of entry i: in spawn mode from the hosts of the parameters
\* and the gathered pids, in app mode from the gathered procmap
mpir_desc(mpir, p, map, i) ==
    IF mpir = "spawn"
    THEN [host_name |-> strmap_get(p, itoa(i)),
          executable_name |-> strmap_get(p, "EXE"),
          pid |-> atoi(strmap_get(map, itoa(i)))]
    ELSE [host_name |-> strmap_get(map, "H" \o itoa(i)),
          executable_name |-> strmap_get(map, "E" \o itoa(i)),
          pid |-> atoi(strmap_get(map, "P" \o itoa(i)))]

\* one iteration of the loop that fills MPIR_proctable at rank 0 (the size
\* is assigned before the loop); the other launchers pass
MpirFill(r) ==
    /\ Stmt(r) = "mpir_fill"
    /\ LET mpir == strmap_get(params[r], "MPIR")
           size == mpir_size(mpir, tree[r].ranks, cfg.PPN)
           i == Len(loc[r].mpir.proctable)
       IN IF tree[r].rank = 0 /\ i < size
          THEN /\ loc' = [loc EXCEPT
                            ![r].mpir.size = size,
                            ![r].mpir.proctable =
                                Append(@, mpir_desc(mpir, params[r], loc[r].map, i))]
               /\ pc' = pc
          ELSE /\ loc' = loc
               /\ pc' = [pc EXCEPT ![r] = NextStmt(r, tree[r])]
    /\ UNCHANGED <<cfg, tree, build, params, ep, up, down, spawned, app, ach>>

\* rank 0 sets MPIR_debug_state and calls MPIR_Breakpoint; the strmap of the
\* gather is deleted afterwards
MpirBreakpoint(r) ==
    /\ Stmt(r) = "mpir_breakpoint"
    /\ loc' = IF tree[r].rank = 0
              THEN [loc EXCEPT ![r].mpir.debug_state = MPIR_DEBUG_SPAWNED,
                               ![r].mpir.breakpoints = @ + 1]
              ELSE loc
    /\ pc' = [pc EXCEPT ![r] = NextStmt(r, tree[r])]
    /\ UNCHANGED <<cfg, tree, build, params, ep, up, down, spawned, app, ach>>

NextMeasure ==
    \E r \in Launchers :
        \/ SignalFromRoot(r)
        \/ SignalToRootRead(r)
        \/ SignalToRootWrite(r)
        \/ GatherRead(r)
        \/ GatherWrite(r)
        \/ BcastStrmap(r)
        \/ PidSet(r)
        \/ EpSet(r)
        \/ PackUnpack(r)
        \/ LaunchApps(r)
        \/ ProcmapSet(r)
        \/ MpirFill(r)
        \/ MpirBreakpoint(r)

SpecMeasure == InitMeasure /\ [][NextMeasure]_vars

\* the statements of the measurement collectives of session_start
MeasureStmts == {"pid_set", "ep_set", "gather_strmap", "bcast_strmap",
                 "pack_unpack", "signal_from_root", "signal_to_root"}

\* the launcher is inside the measurement part of session_start
InMeasure(r) ==
    /\ Stmt(r) \in MeasureStmts
    /\ \E q \in pc[r]..Len(cfg.prog) : cfg.prog[q] = "launch_apps"

\* C27: a step of a measurement collective (the gather of the launcher pids,
\* the allgather of the endpoint names, the pack and unpack, the signal
\* waves) leaves the parameters, the tree, the endpoint and the two indexes
\* of the process groups of the launcher as they were
C27_MeasureFrame ==
    [][\A r \in Launchers :
          (InMeasure(r) /\ (pc'[r] # pc[r] \/ loc'[r] # loc[r])) =>
              /\ params'[r] = params[r]
              /\ tree'[r] = tree[r]
              /\ ep'[r] = ep[r]
              /\ loc'[r].name2group = loc[r].name2group
              /\ loc'[r].pid2name = loc[r].pid2name]_vars

\* the root has the endpoint names of all launchers in the strmap of the
\* allgather, and its parameters are those of session_init
C27_Witness ==
    /\ cfg.N = MaxPmiN
    /\ Stmt(0) = "pack_unpack"
    /\ \A i \in Launchers : strmap_get(loc[0].map, itoa(i)) = EpName(i)
    /\ params[0] = session_init_mpir(cfg.mpir, cfg.N, cfg.DEG)

\* the entries that the table of the debugger has to hold in each mode
MpirExpected(i) ==
    IF cfg.mpir = "spawn"
    THEN [host_name |-> HostName(i), executable_name |-> "/spawn",
          pid |-> LauncherPid(i)]
    ELSE [host_name |-> HostName(i \div cfg.PPN),
          executable_name |-> "/bin/hostname",
          pid |-> AppPid(<<i \div cfg.PPN, i % cfg.PPN>>)]

MpirTold(r) == loc[r].mpir.debug_state = MPIR_DEBUG_SPAWNED \/ loc[r].mpir.breakpoints > 0

\* C29: only rank 0 fills the table of the debugger; when the debug state is
\* spawned or MPIR_Breakpoint has been called, the table has N entries in
\* spawn mode and N * PPN entries in app mode, each filled from the gathered
\* data, and the state was set and the breakpoint called once
C29_DebuggerTable ==
    \A r \in Launchers :
        /\ r # 0 => loc[r].mpir = session_new.mpir
        /\ MpirTold(r) =>
              /\ r = 0
              /\ cfg.mpir \in {"spawn", "app"}
              /\ loc[r].mpir.debug_state = MPIR_DEBUG_SPAWNED
              /\ loc[r].mpir.breakpoints = 1
              /\ loc[r].mpir.size = (IF cfg.mpir = "spawn" THEN cfg.N
                                     ELSE cfg.N * cfg.PPN)
              /\ Len(loc[r].mpir.proctable) = loc[r].mpir.size
              /\ \A i \in 0..(loc[r].mpir.size - 1) :
                    loc[r].mpir.proctable[i + 1] = MpirExpected(i)

\* the debugger has been told of the processes of the largest job in app mode
C29_Witness ==
    /\ cfg.mpir = "app" /\ cfg.N = MaxPmiN /\ cfg.PPN = MaxPPN
    /\ MpirTold(0)
    /\ Len(loc[0].mpir.proctable) = MaxPmiN * MaxPPN

\* the same in spawn mode
MpirSpawnTold ==
    /\ cfg.mpir = "spawn" /\ cfg.N = MaxPmiN
    /\ MpirTold(0)
    /\ Len(loc[0].mpir.proctable) = MaxPmiN

\* -------------------------------------------------------------------------
\* The integers on the wire: spawn_pack_uint64 (string lengths and strmap
\* counts), the size that bcast_file sends, the values that
\* print_critical_path sends
\* -------------------------------------------------------------------------
MaxWireItems == 2   \* integers written on the channel

\* a uint64_t as its eight bytes, most significant first
Uint64s ==
    {<<0, 0, 0, 0, 0, 0, 0, 0>>, <<0, 0, 0, 0, 0, 0, 0, 1>>,
     <<0, 0, 0, 0, 0, 0, 1, 0>>, <<0, 0, 0, 0, 0, 0, 1, 2>>,
     <<0, 0, 0, 0, 1, 0, 0, 1>>, <<1, 0, 0, 0, 0, 0, 0, 0>>}

RECURSIVE Reverse(_)
Reverse(q) == IF q = <<>> THEN <<>> ELSE Append(Reverse(Tail(q)), Head(q))

\* the n low bytes of val, most significant first
big_endian(val, n) == SubSeq(val, 9 - n, 8)

\* the bytes of an n-byte integer object that holds val, in the order of
\* their addresses on the host
host_bytes(val, n, endian) ==
    IF endian = "big" THEN big_endian(val, n) ELSE Reverse(big_endian(val, n))

\* the value of the 8-byte object whose bytes are those of val in network order
spawn_hton64(val, endian) == IF endian = "big" THEN val ELSE Reverse(val)

\* memcpy of spawn_hton64(val) into the buffer
spawn_pack_uint64(val, endian) == host_bytes(spawn_hton64(val, endian), 8, endian)

\* the widths of ssize_t that a build can have
SsizeWidths == {4, 8}

\* the values an ssize_t of the build can hold (non-negative ones)
SsizeVals(n) == {v \in Uint64s : \A i \in 1..(8 - n) : v[i] = 0}

InitWire ==
    /\ \E endian \in {"little", "big"}, ssize \in SsizeWidths :
          cfg = [endian |-> endian, ssize |-> ssize]
    /\ down = <<>>
    /\ tree = <<>> /\ build = NoBuild /\ params = <<>> /\ pc = <<>> /\ loc = <<>>
    /\ ep = <<>> /\ up = <<>> /\ spawned = <<>> /\ app = <<>> /\ ach = <<>>

WireWrite(what, val, bytes) ==
    /\ Len(down) < MaxWireItems
    /\ down' = Append(down, [what |-> what, val |-> val, bytes |-> bytes])
    /\ UNCHANGED <<cfg, tree, build, params, pc, loc, ep, up, spawned, app, ach>>

\* spawn_net_write_str: the length of the string, packed
WriteStrLen == \E v \in Uint64s : WireWrite("strlen", v, spawn_pack_uint64(v, cfg.endian))

\* strmap_pack: the number of pairs, packed
WriteStrmapCount == \E v \in Uint64s : WireWrite("count", v, spawn_pack_uint64(v, cfg.endian))

\* bcast_file: bcast(&bufsize, sizeof(ssize_t), t) writes the object as it is
WriteFileSize ==
    \E v \in SsizeVals(cfg.ssize) :
        WireWrite("filesize", v, host_bytes(v, cfg.ssize, cfg.endian))

\* print_critical_path: spawn_net_write(t->parent_ch, max, bytes) writes the
\* uint64_t values as they are
WriteTiming == \E v \in Uint64s : WireWrite("timing", v, host_bytes(v, 8, cfg.endian))

NextWire == WriteStrLen \/ WriteStrmapCount \/ WriteFileSize \/ WriteTiming

SpecWire == InitWire /\ [][NextWire]_vars

\* C31: every integer written on the channel is there most significant byte
\* first
C31_BigEndian ==
    \A k \in 1..Len(down) : down[k].bytes = big_endian(down[k].val, Len(down[k].bytes))

\* what holds: the integers that go through spawn_pack_uint64 are big-endian
\* on every host, and every integer is on a big-endian host
PackedBigEndian ==
    \A k \in 1..Len(down) :
        (down[k].what \in {"strlen", "count"} \/ cfg.endian = "big") =>
            down[k].bytes = big_endian(down[k].val, Len(down[k].bytes))

\* the raw integers are in the byte order of the host
RawHostOrder ==
    \A k \in 1..Len(down) :
        down[k].what \in {"filesize", "timing"} =>
            down[k].bytes = host_bytes(down[k].val, Len(down[k].bytes), cfg.endian)

\* -------------------------------------------------------------------------
\* strmap_pack and strmap_unpack on a strmap built by strmap_set: the
\* pack and unpack of session_start, and a strmap sent over a channel
\* -------------------------------------------------------------------------
MaxSets == 3   \* calls of strmap_set that build the strmap

StrmapKeys == {"a", "b"}

StrmapVals == {"x", "y", ""}

InitStrmap ==
    /\ loc = [stage |-> "set", sets |-> 0, m |-> strmap_new,
              tmpmap |-> strmap_new, got |-> strmap_new]
    /\ down = <<>>
    /\ cfg = <<>> /\ tree = <<>> /\ build = NoBuild /\ params = <<>> /\ pc = <<>>
    /\ ep = <<>> /\ up = <<>> /\ spawned = <<>> /\ app = <<>> /\ ach = <<>>

StrmapSet ==
    /\ loc.stage = "set" /\ loc.sets < MaxSets
    /\ \E k \in StrmapKeys, v \in StrmapVals :
          loc' = [loc EXCEPT !.m = strmap_set(@, k, v), !.sets = @ + 1]
    /\ UNCHANGED <<cfg, tree, build, params, pc, ep, up, down, spawned, app, ach>>

\* mutant: the strmap that is unpacked into already has an entry
pack_unpack_used(map) == strmap_unpack(strmap_pack(map), strmap_set(strmap_new, "b", "old"))

\* tmpmap of session_start: the packed strmap, unpacked into a new strmap
pack_unpack(map) == strmap_unpack(strmap_pack(map), strmap_new)

StrmapPackUnpack ==
    /\ loc.stage = "set"
    /\ loc' = [loc EXCEPT !.tmpmap = pack_unpack(loc.m), !.stage = "unpacked"]
    /\ UNCHANGED <<cfg, tree, build, params, pc, ep, up, down, spawned, app, ach>>

\* spawn_net_write_strmap
WriteStrmap ==
    /\ loc.stage = "set"
    /\ down' = Append(down, MsgStrmap(loc.m))
    /\ loc' = [loc EXCEPT !.stage = "written"]
    /\ UNCHANGED <<cfg, tree, build, params, pc, ep, up, spawned, app, ach>>

\* spawn_net_read_strmap into a new strmap
ReadStrmap ==
    /\ loc.stage = "written" /\ down # <<>> /\ Head(down).kind = "strmap"
    /\ loc' = [loc EXCEPT !.got = strmap_unpack(Head(down).data, strmap_new),
                          !.stage = "read"]
    /\ down' = Tail(down)
    /\ UNCHANGED <<cfg, tree, build, params, pc, ep, up, spawned, app, ach>>

NextStrmap == StrmapSet \/ StrmapPackUnpack \/ WriteStrmap \/ ReadStrmap

SpecStrmap == InitStrmap /\ [][NextStrmap]_vars

\* C32: the packed form of a strmap, unpacked into an empty strmap, gives the
\* same sequence of (key, value) pairs; a strmap read from a channel into an
\* empty strmap is the strmap that was written
C32_RoundTrip ==
    /\ loc.stage = "unpacked" => loc.tmpmap = loc.m
    /\ loc.stage = "read" => loc.got = loc.m

\* a strmap of two keys, the first of which was set twice, has been unpacked
C32_Witness ==
    /\ loc.stage = "unpacked"
    /\ loc.sets = MaxSets
    /\ Len(loc.m) = 2
    /\ loc.m[1] = <<"b", "">>

\* the same strmap has been read from the channel
StrmapRead ==
    /\ loc.stage = "read"
    /\ loc.sets = MaxSets
    /\ loc.got = <<<<"b", "">>, <<"a", "x">>>>

\* -------------------------------------------------------------------------
\* session_start as a whole: the unfurl, the measurement collectives, the
\* broadcast of the application parameters, process_group_start with each
\* of its options, print_critical_path and the wave before the final wait
\* -------------------------------------------------------------------------
MaxFullN == 2   \* launchers in the whole session

MaxFullProcs == 2   \* application processes in the whole session

FullProg(mpir, pmi, ring, bin) ==
    SubSeq(ConfigProg, 1, 9)
    \o SubSeq(MeasureProg(mpir), 1, IF mpir = "spawn" THEN 16 ELSE 13)
    \o <<"appmap_set", "bcast_strmap", "signal_to_root",
         "signal_from_root", "open_ep", "signal_to_root">>
    \o (IF bin THEN SubSeq(BcastProg, 5, 9) ELSE <<>>)
    \o <<"signal_from_root", "launch_apps", "signal_to_root">>
    \o (IF mpir = "app"
        THEN SubSeq(MeasureProg(mpir), 17, Len(MeasureProg(mpir))) ELSE <<>>)
    \o (IF pmi THEN <<"signal_from_root", "pmi_new">> \o SubSeq(PmiProg, 5, Len(PmiProg))
        ELSE <<>>)
    \o (IF ring THEN SubSeq(RingProg, 4, Len(RingProg)) ELSE <<>>)
    \o <<"signal_from_root", "close_ep", "signal_to_root",
         "critical_path", "signal_from_root">>

\* the run: cfg.ring and cfg.file are there when MV2_SPAWN_RING and
\* MV2_SPAWN_BCAST_BIN are set
FullCfg(N, PPN, copy, mpir, pmi, ring, fifo, bin) ==
    LET base == [N |-> N, DEG |-> 2, PPN |-> PPN,
                 prog |-> FullProg(mpir, pmi, ring, bin),
                 appmap |-> TRUE, mpir |-> mpir, pmi |-> pmi, fifo |-> fifo,
                 env |-> [net |-> NULL, degree |-> NULL, sh |-> NULL,
                          local |-> NULL, copy |-> copy, ppn |-> itoa(PPN)]]
        r1 == IF ring THEN [x \in {"ring"} |-> TRUE] ELSE <<>>
        r2 == IF bin THEN [path |-> <<"bin", "app">>, file |-> <<1, 0>>, io |-> "ok",
                           at |-> 0]
              ELSE <<>>
    IN base @@ r1 @@ r2

\* session_init of the root under a debugger: MPIR is set before the rest
session_init_dbg(env, argc, mpir) ==
    (IF mpir = NULL THEN <<>> ELSE <<<<"MPIR", mpir>>>>)
    \o session_init_env(env, argc)

\* the root has run session_init and enters session_start; the other
\* launchers are not started yet
InitFull ==
    /\ \E N \in 1..MaxFullN, PPN \in 0..MaxPPN, copy \in {NULL, "1"},
          mpir \in {NULL, "spawn", "app"}, pmi \in BOOLEAN, ring \in BOOLEAN,
          fifo \in BOOLEAN, bin \in BOOLEAN :
          /\ N * PPN <= MaxFullProcs
          /\ cfg = FullCfg(N, PPN, copy, mpir, pmi, ring, fifo, bin)
    /\ tree = [r \in Launchers |-> tree_new]
    /\ build = NoBuild
    /\ params = [r \in Launchers |->
                   IF r = 0 THEN session_init_dbg(cfg.env, cfg.N, cfg.mpir)
                   ELSE strmap_new]
    /\ pc = [r \in Launchers |-> IF r = 0 THEN FirstStmt("identify") ELSE 0]
    /\ loc = [r \in Launchers |-> session_new]
    /\ ep = [r \in Launchers |-> <<>>]
    /\ up = [c \in 1..(cfg.N - 1) |-> <<>>]
    /\ down = [c \in 1..(cfg.N - 1) |-> <<>>]
    /\ spawned = [c \in 1..(cfg.N - 1) |-> <<>>]
    /\ app = [a \in Apps |-> app_new]
    /\ ach = [a \in Apps |-> ach_new]

\* the application parameters: the root fills them in from its environment
AppmapSet(r) ==
    /\ Stmt(r) = "appmap_set"
    /\ loc' = [loc EXCEPT ![r].map =
                 IF loc[r].spawn_parent = NULL
                 THEN strmap_set(strmap_set(strmap_set(
                          app_params(IF "file" \in DOMAIN cfg THEN "/bin/app"
                                     ELSE "/bin/hostname",
                                     cfg.PPN, IF "file" \in DOMAIN cfg THEN 1 ELSE 0),
                          "PMI", IF cfg.pmi THEN "1" ELSE "0"),
                          "RING", IF "ring" \in DOMAIN cfg THEN "1" ELSE "0"),
                          "FIFO", IF cfg.fifo THEN "1" ELSE "0")
                 ELSE strmap_new]
    /\ pc' = [pc EXCEPT ![r] = NextStmt(r, tree[r])]
    /\ UNCHANGED <<cfg, tree, build, params, ep, up, down, spawned, app, ach>>

\* process_group_start: with FIFO and PMI or RING the launcher opens an
\* endpoint of its own for the processes, and closes it at the end
OpenCloseEp(r) ==
    /\ Stmt(r) \in {"open_ep", "close_ep"}
    /\ LET appmap == IF Stmt(r) = "open_ep" THEN loc[r].map
                     ELSE loc[r].groups[loc[r].pg].params
           use_pmi == atoi(strmap_get(appmap, "PMI"))
           use_ring == atoi(strmap_get(appmap, "RING"))
           use_fifo == atoi(strmap_get(appmap, "FIFO"))
       IN loc' = [loc EXCEPT ![r].fifo =
                     IF (use_pmi # 0 \/ use_ring # 0) /\ use_fifo # 0
                     THEN Stmt(r) = "open_ep" ELSE @]
    /\ pc' = [pc EXCEPT ![r] = NextStmt(r, tree[r])]
    /\ UNCHANGED <<cfg, tree, build, params, ep, up, down, spawned, app, ach>>

\* pmi_exchange: pmi_strmap = strmap_new()
PmiNew(r) ==
    /\ Stmt(r) = "pmi_new"
    /\ loc' = [loc EXCEPT ![r].map = strmap_new]
    /\ pc' = [pc EXCEPT ![r] = NextStmt(r, tree[r])]
    /\ UNCHANGED <<cfg, tree, build, params, ep, up, down, spawned, app, ach>>

\* the six times of the unfurl that a launcher brings to print_critical_path
UnfurlTimes(r) == <<1, 1, 1, 1, 1, 1>>

MsgTimes(vals) == [kind |-> "bytes", data |-> vals]

\* print_critical_path: read the values of child i, keep the maxima
CriticalRead(r) ==
    /\ Stmt(r) = "critical_path"
    /\ loc[r].i < tree[r].children
    /\ LET ch == tree[r].child_chs[loc[r].i + 1]
           recv == Head(up[ch]).data
       IN /\ up[ch] # <<>>
          /\ loc' = [loc EXCEPT
                 ![r].times = [j \in 1..6 |->
                                 IF loc[r].i = 0 \/ recv[j] > loc[r].times[j]
                                 THEN recv[j] ELSE loc[r].times[j]],
                 ![r].i = @ + 1]
          /\ up' = [up EXCEPT ![ch] = Tail(@)]
    /\ UNCHANGED <<cfg, tree, build, params, pc, ep, down, spawned, app, ach>>

\* mutant: the values are not sent to the parent
critical_path_writes_never(t) == FALSE

\* print_critical_path sends its values when the launcher has a parent
critical_path_writes(t) == t.parent_ch # SPAWN_NET_CHANNEL_NULL

\* print_critical_path: add the own times, send the sums to the parent
CriticalWrite(r) ==
    /\ Stmt(r) = "critical_path"
    /\ loc[r].i = tree[r].children
    /\ LET max == [j \in 1..6 |->
                      IF tree[r].children > 0
                      THEN loc[r].times[j] + UnfurlTimes(r)[j]
                      ELSE UnfurlTimes(r)[j]]
       IN /\ up' = IF critical_path_writes(tree[r])
                   THEN [up EXCEPT ![tree[r].parent_ch] = Append(@, MsgTimes(max))]
                   ELSE up
          /\ loc' = [loc EXCEPT ![r].times = max, ![r].i = 0]
    /\ pc' = [pc EXCEPT ![r] = NextStmt(r, tree[r])]
    /\ UNCHANGED <<cfg, tree, build, params, ep, down, spawned, app, ach>>

\* a process follows the protocols that the job runs: PMI first when it is
\* on, the ring on its own when only the ring is on
FullAppConnect(a) == cfg.pmi /\ AppConnect(a)

FullAppRingConnect(a) == ~cfg.pmi /\ "ring" \in DOMAIN cfg /\ AppRingConnect(a)

NextFull ==
    \/ \E r \in Launchers :
          \/ ConnectParent(r)
          \/ ReadParams(r)
          \/ IdentifyChildren(r)
          \/ CopyFork(r)
          \/ CopyWait(r)
          \/ \E i \in 1..MaxFullN : HelperExit(r, i)
          \/ LaunchChild(r)
          \/ AcceptChild(r)
          \/ HandshakeChild(r)
          \/ SignalToRootRead(r)
          \/ SignalToRootWrite(r)
          \/ SignalFromRoot(r)
          \/ PidSet(r)
          \/ EpSet(r)
          \/ PackUnpack(r)
          \/ MpirFill(r)
          \/ MpirBreakpoint(r)
          \/ AppmapSet(r)
          \/ OpenCloseEp(r)
          \/ BcastRead(r)
          \/ BcastWrite(r)
          \/ WriteToRamdisk(r)
          \/ LaunchApps(r)
          \/ ProcmapSet(r)
          \/ PmiNew(r)
          \/ PmiAccept(r)
          \/ PmiInit(r)
          \/ PmiRead(r)
          \/ GatherRead(r)
          \/ GatherWrite(r)
          \/ BcastStrmap(r)
          \/ PmiBarrier(r)
          \/ PmiGet(r)
          \/ PmiFinalize(r)
          \/ RingAccept(r)
          \/ RingRead(r)
          \/ RingInput(r)
          \/ RingScanRead(r)
          \/ RingScanUp(r)
          \/ RingScanDown(r)
          \/ RingWrite(r)
          \/ RingDisconnect(r)
          \/ CriticalRead(r)
          \/ CriticalWrite(r)
    \/ \E a \in Apps :
          \/ FullAppConnect(a)
          \/ AppInit(a)
          \/ AppBarrier(a)
          \/ AppGet1(a)
          \/ AppGet2(a)
          \/ AppRingReconnect(a)
          \/ AppRingSend(a)
          \/ FullAppRingConnect(a)
          \/ AppRingRead(a)

\* every launcher and every process takes its next step when it can
SpecFull == InitFull /\ [][NextFull]_vars /\ WF_vars(NextFull)

\* every launcher is at the final wait of session_start
FullDone == \A r \in Launchers : pc[r] = Len(cfg.prog) + 1

RingReplyFor(a) ==
    app[a].pc = "ring_sent" /\ ach[a].kind = "ring" /\ ach[a].down # <<>>

RingReply(a) == strmap_unpack(Head(ach[a].down).data, strmap_new)

\* C39: with PMI and RING both on, every process is sent the same RANK in
\* the init strmap of PMI and in the reply of the ring, in whatever order the
\* processes of a launcher connect in the two accept phases
C39_SameRank ==
    \A a \in Apps :
        RingReplyFor(a) =>
            strmap_get(RingReply(a), "RANK") = strmap_get(app[a].init, "RANK")

\* what holds of the code: the RANK of the ring is the launcher's rank times
\* PPN plus the place of the process among the connections accepted for the ring
RingRankByAccept ==
    \A a \in Apps :
        RingReplyFor(a) =>
            \E i \in 1..Len(loc[a[1]].chs) :
                /\ loc[a[1]].chs[i] = a
                /\ strmap_get(RingReply(a), "RANK") = itoa(a[1] * cfg.PPN + i - 1)

\* the process that PMI made RANK 0 is made RANK 1 by the ring
RanksSwapped ==
    \E a \in Apps :
        /\ RingReplyFor(a)
        /\ strmap_get(app[a].init, "RANK") = "0"
        /\ strmap_get(RingReply(a), "RANK") = "1"

\* the init strmap of PMI is in flight to process a
PmiInitFor(a) ==
    app[a].pc = "connected" /\ ach[a].kind = "pmi" /\ ach[a].down # <<>>

\* C40: in MPIR=app mode with PMI on, entry i of the table of the debugger
\* holds the host and the pid of the process that is sent RANK = i, in
\* whatever order the processes connect to their launcher
C40_TableMatchesRanks ==
    cfg.mpir = "app" /\ cfg.pmi =>
        \A a \in Apps :
            PmiInitFor(a) =>
                LET i == atoi(strmap_get(InitOf(a), "RANK"))
                IN /\ i < Len(loc[0].mpir.proctable)
                   /\ loc[0].mpir.proctable[i + 1].host_name = HostName(a[1])
                   /\ loc[0].mpir.proctable[i + 1].pid = AppPid(a)

\* what holds of the code: the entry of a process is at the launcher's rank
\* times PPN plus the place of the process in the order of the forks, and the
\* host of entry RANK is that of the process
TableByForkOrder ==
    cfg.mpir = "app" /\ cfg.pmi =>
        \A a \in Apps :
            PmiInitFor(a) =>
                LET i == atoi(strmap_get(InitOf(a), "RANK"))
                    j == a[1] * cfg.PPN + a[2]
                IN /\ Len(loc[0].mpir.proctable) = cfg.N * cfg.PPN
                   /\ loc[0].mpir.proctable[j + 1].host_name = HostName(a[1])
                   /\ loc[0].mpir.proctable[j + 1].pid = AppPid(a)
                   /\ loc[0].mpir.proctable[i + 1].host_name = HostName(a[1])

\* the process forked second is sent RANK 0, and entry 0 has another pid
TableOfAnother ==
    /\ cfg.mpir = "app" /\ cfg.pmi
    /\ \E a \in Apps :
          /\ PmiInitFor(a)
          /\ a[2] = 1
          /\ strmap_get(InitOf(a), "RANK") = "0"
          /\ loc[0].mpir.proctable[1].pid # AppPid(a)

\* what a launcher reads from a child at a statement of session_start: its
\* kind and its size (0: a packed strmap, whose size is sent ahead of it)
UpItem(stmt) ==
    CASE stmt \in {"handshake", "gather_strmap", "ring_scan_read"} -> <<"strmap", 0>>
      [] stmt = "signal_to_root" -> <<"bytes", 1>>
      [] stmt = "critical_path" -> <<"bytes", 6>>
      [] OTHER -> <<"none", 0>>

\* what a launcher reads from its parent at a statement of session_start
DownItem(stmt) ==
    CASE stmt \in {"read_params", "bcast_strmap", "ring_scan_down"} -> <<"strmap", 0>>
      [] stmt = "signal_from_root" -> <<"bytes", 1>>
      [] stmt = "bcast_size" -> <<"bcast", 1>>
      [] stmt = "bcast_buf" -> <<"bcast", Len(cfg.file)>>
      [] OTHER -> <<"none", 0>>

\* the kind and the size of an item in flight
ItemOf(msg) == <<msg.kind, IF msg.kind = "strmap" THEN 0 ELSE Len(msg.data)>>

\* the launcher at the upper end of the channel of child c
ChannelReader(c) == (c - 1) \div cfg.DEG

\* the parent has read the item of child c in its current loop over the children
UpAlreadyRead(c) ==
    LET r == ChannelReader(c)
    IN \/ /\ Stmt(r) = "handshake"
          /\ \E k \in 1..loc[r].i : loc[r].chs[k] = c
       \/ /\ Stmt(r) \in {"signal_to_root", "gather_strmap", "ring_scan_read",
                          "critical_path"}
          /\ \E k \in 1..loc[r].i : tree[r].child_chs[k] = c

\* launcher c has read the item of its current bcast and not yet passed it on
DownAlreadyRead(c) == Stmt(c) \in BcastStmts /\ loc[c].got

\* the items the statements from position first on read, in program order
ExpectedFrom(first, up_not_down) ==
    LET all == [k \in 1..(Len(cfg.prog) + 1 - first) |->
                  IF up_not_down THEN UpItem(cfg.prog[first + k - 1])
                  ELSE DownItem(cfg.prog[first + k - 1])]
        read(item) == item[1] # "none"
    IN SelectSeq(all, read)

\* the items the parent of c has still to read from c
UpExpected(c) ==
    LET r == ChannelReader(c)
    IN ExpectedFrom(IF UpAlreadyRead(c) THEN pc[r] + 1 ELSE Max(pc[r], 1), TRUE)

\* the items launcher c has still to read from its parent
DownExpected(c) ==
    ExpectedFrom(IF DownAlreadyRead(c) THEN pc[c] + 1 ELSE Max(pc[c], 1), FALSE)

\* item k in flight is the k-th item the reader has still to read
Agrees(queue, expected) ==
    /\ Len(queue) <= Len(expected)
    /\ \A k \in 1..Len(queue) : ItemOf(queue[k]) = expected[k]

\* C37: on every tree channel and in both directions the k-th item written
\* has the kind and the size of the k-th item the reader expects, for every
\* combination of MPIR, PMI, RING, FIFO and BIN_BCAST
C37_ChannelAgreement ==
    \A c \in DOMAIN up :
        /\ Agrees(up[c], UpExpected(c))
        /\ Agrees(down[c], DownExpected(c))

\* with every option on, the signal, the size and the bytes of the bcast are
\* in flight to a child that is still before the launch of the processes
C37_Witness ==
    /\ cfg.pmi /\ "ring" \in DOMAIN cfg /\ "file" \in DOMAIN cfg /\ cfg.mpir = "app"
    /\ \E c \in DOMAIN down :
          /\ Len(down[c]) = 3
          /\ ItemOf(down[c][1]) = <<"bytes", 1>>
          /\ ItemOf(down[c][2]) = <<"bcast", 1>>
          /\ ItemOf(down[c][3]) = <<"bcast", Len(cfg.file)>>
          /\ Stmt(c) = "signal_from_root"

\* the values of print_critical_path are in flight behind no other item
CriticalInFlight ==
    \E c \in DOMAIN up : up[c] # <<>> /\ ItemOf(up[c][Len(up[c])]) = <<"bytes", 6>>

====
